---- MODULE Spec2Model ----
(***************************************************************************)
(* License verification and client lifecycle of the SaaS admin panel:     *)
(* the saas_clients store, the verification log, the verify-license       *)
(* POST/GET handlers and the administrative handlers (create, update,     *)
(* toggle-status, regenerate-license).                                    *)
(***************************************************************************)
EXTENDS Integers, Sequences, FiniteSets, TLC

VARIABLES
    saasClients,               \* table saas_clients: client id -> row
    licenseVerificationLogs,   \* table license_verification_logs, in insertion order
    now,                       \* the wall clock read by new Date()
    response,                  \* the request last answered and its response
    requests,                  \* handlers suspended at an await (interleaved runs)
    fetches                    \* the network requests fetch() has sent, in order

vars == <<saasClients, licenseVerificationLogs, now, response, requests, fetches>>

(***************************************************************************)
(* Bounds of the model.                                                    *)
(***************************************************************************)
MaxTime == 2
MaxLogs == 2
MaxNotes == 1

ClientIds == {"c1", "c2"}
LicenseKeys == {"LIC-A", "LIC-B", "LIC-C"}
Emails == {"a@x.io", "b@x.io"}

\* JavaScript's falsy string (undefined, null and '' all fail the `!x` test)
\* and the null of a nullable column.
MISSING == ""
NoDate == 0

(***************************************************************************)
(* Strings that the code takes apart are sequences of characters.          *)
(***************************************************************************)
Str_a_io == <<"a", ".", "i", "o">>
Str_A_IO == <<"A", ".", "I", "O">>
Str_b_io == <<"b", ".", "i", "o">>
Str_https_a_io_slash == <<"h", "t", "t", "p", "s", ":", "/", "/", "a", ".", "i", "o", "/">>
Str_HTTPS_A_IO_slash == <<"H", "T", "T", "P", "S", ":", "/", "/", "A", ".", "I", "O", "/">>
Str_http_b_io == <<"h", "t", "t", "p", ":", "/", "/", "b", ".", "i", "o">>
Str_httpd_io == <<"h", "t", "t", "p", "d", ".", "i", "o">>

Upper == {"A", "B", "D", "H", "I", "O", "P", "S", "T"}
LowerOf ==
    [c \in Upper |->
        CASE c = "A" -> "a" [] c = "B" -> "b" [] c = "D" -> "d" [] c = "H" -> "h"
          [] c = "I" -> "i" [] c = "O" -> "o" [] c = "P" -> "p" [] c = "S" -> "s"
          [] c = "T" -> "t"]

\* String.prototype.toLowerCase
toLowerCase(s) == [i \in 1..Len(s) |-> IF s[i] \in Upper THEN LowerOf[s[i]] ELSE s[i]]

\* String.prototype.startsWith (case-sensitive)
startsWith(s, p) == Len(s) >= Len(p) /\ SubSeq(s, 1, Len(p)) = p

\* index of the first character of s, from position `from`, that is in set cs; 0 if none
RECURSIVE IndexOfAny(_, _, _)
IndexOfAny(s, cs, from) ==
    IF from > Len(s) THEN 0
    ELSE IF s[from] \in cs THEN from
    ELSE IndexOfAny(s, cs, from + 1)

\* first position at or after `from` whose character is not a slash
RECURSIVE SkipSlashes(_, _)
SkipSlashes(s, from) ==
    IF from <= Len(s) /\ s[from] \in {"/", "\\"} THEN SkipSlashes(s, from + 1) ELSE from

Digits == {"0", "1", "2", "3", "4", "5", "6", "7", "8", "9"}
Str_http == <<"h", "t", "t", "p">>
Str_https == <<"h", "t", "t", "p", "s">>
Str_https_prefix == <<"h", "t", "t", "p", "s", ":", "/", "/">>

(***************************************************************************)
(* new URL(s).hostname for an absolute URL: [ok |-> FALSE] when the        *)
(* constructor throws.  The scheme ends at the first ':', the slashes      *)
(* after a special scheme are skipped, the authority ends at '/', '?' or   *)
(* '#', a port follows the first ':' of the authority, and the host is     *)
(* lower-cased by the parser.                                              *)
(***************************************************************************)
URLHostname(s) ==
    LET colon == IndexOfAny(s, {":"}, 1)
        stop  == IndexOfAny(s, {"/", "?", "#"}, 1)
    IN  IF colon <= 1 \/ (stop # 0 /\ stop < colon)
        THEN [ok |-> FALSE, hostname |-> <<>>]
        ELSE
        LET scheme    == toLowerCase(SubSeq(s, 1, colon - 1))
            start     == SkipSlashes(s, colon + 1)
            endAt     == IndexOfAny(s, {"/", "\\", "?", "#"}, start)
            last      == IF endAt = 0 THEN Len(s) ELSE endAt - 1
            authority == SubSeq(s, start, last)
            portAt    == IndexOfAny(authority, {":"}, 1)
            host      == IF portAt = 0 THEN authority
                         ELSE SubSeq(authority, 1, portAt - 1)
            port      == IF portAt = 0 THEN <<>>
                         ELSE SubSeq(authority, portAt + 1, Len(authority))
        IN  IF scheme \notin {Str_http, Str_https}
            THEN [ok |-> TRUE, hostname |-> <<>>]
            ELSE IF host = <<>> \/ \E i \in 1..Len(port) : port[i] \notin Digits
            THEN [ok |-> FALSE, hostname |-> <<>>]
            ELSE [ok |-> TRUE, hostname |-> toLowerCase(host)]

\* extractDomain of verify-license/route.ts
extractDomain(url) ==
    LET parsedUrl == URLHostname(IF startsWith(url, Str_http) THEN url
                                 ELSE Str_https_prefix \o url)
    IN  IF parsedUrl.ok THEN toLowerCase(parsedUrl.hostname) ELSE toLowerCase(url)

(***************************************************************************)
(* Inputs of the requests.                                                 *)
(***************************************************************************)
Statuses == {"active", "suspended", "cancelled"}
SubscriptionStatuses == {"active", "expired", "cancelled", "suspended"}
SubscriptionTypes == {"monthly", "yearly", "lifetime"}
ToggleActions == {"enable", "disable", "suspend"}

\* the `domain` a verification request may carry ('' when it is left out)
RequestDomains == {<<>>, Str_a_io, Str_A_IO, Str_https_a_io_slash, Str_b_io}
\* the `websiteDomain` an administrator may enter
WebsiteDomains == {Str_a_io, Str_https_a_io_slash, Str_b_io}
WebsiteUrls == {Str_https_a_io_slash}
\* the license key a verification request may carry ('' when it is left out)
RequestKeys == LicenseKeys \cup {MISSING}
ApiKeys == {"api-1", "api-2"}

\* one month and one year on the model's clock
MonthLen == 1
YearLen == 2

(***************************************************************************)
(* The store.                                                              *)
(***************************************************************************)
Ids == DOMAIN saasClients

\* db.select().from(saasClients).where(eq(saasClients.licenseKey, k))
ByLicenseKey(clients, k) == {id \in DOMAIN clients : clients[id].licenseKey = k}

\* db.select().from(saasClients).where(eq(saasClients.contactEmail, e))
ByEmail(clients, e) == {id \in DOMAIN clients : clients[id].contactEmail = e}

\* db.update(saasClients).set(patch).where(eq(saasClients.id, id))
UpdateWhereId(clients, id, patch) ==
    [c \in DOMAIN clients |->
        IF c = id
        THEN [f \in DOMAIN clients[c] |->
                 IF f \in DOMAIN patch THEN patch[f] ELSE clients[c][f]]
        ELSE clients[c]]

\* db.insert(saasClients).values(row)
InsertClient(clients, id, row) ==
    [c \in DOMAIN clients \cup {id} |-> IF c = id THEN row ELSE clients[c]]

(***************************************************************************)
(* verify-license/route.ts                                                 *)
(***************************************************************************)
\* the row written by db.insert(licenseVerificationLogs).values({...})
LogEntry(clientId, licenseKey, requestDomain, verificationStatus, errorMessage) ==
    [clientId |-> clientId, licenseKey |-> licenseKey, requestDomain |-> requestDomain,
     verificationStatus |-> verificationStatus, errorMessage |-> errorMessage]

NoPatch == <<>>

PostNotFound_Unlogged(licenseKey, requestDomain) ==
    [step |-> "lookup", clientId |-> "unknown", patch |-> NoPatch, log |-> <<>>,
     status |-> 401,
     body |-> [valid |-> FALSE, error |-> "Invalid license key"]]

\* POST, lines 61-79: no row has the license key
PostNotFound(licenseKey, requestDomain) ==
    [step |-> "lookup", clientId |-> "unknown", patch |-> NoPatch,
     log |-> <<LogEntry("unknown", licenseKey, requestDomain, "invalid",
                      "License key not found")>>,
     status |-> 401,
     body |-> [valid |-> FALSE, error |-> "Invalid license key"]]

AccountRejected_LogsStatus(id, clientData, licenseKey, requestDomain) ==
    [step |-> "account", clientId |-> id, patch |-> NoPatch,
     log |-> <<LogEntry(id, licenseKey, requestDomain, clientData.status,
                      "Client status: " \o clientData.status)>>,
     status |-> 403,
     body |-> [valid |-> FALSE, error |-> "License is " \o clientData.status]]

\* POST, lines 84-101: the account gate
AccountRejected(id, clientData, licenseKey, requestDomain) ==
    [step |-> "account", clientId |-> id, patch |-> NoPatch,
     log |-> <<LogEntry(id, licenseKey, requestDomain, "suspended",
                      "Client status: " \o clientData.status)>>,
     status |-> 403,
     body |-> [valid |-> FALSE, error |-> "License is " \o clientData.status]]

\* POST, lines 104-124: the domain binding
DomainRejected(id, clientData, licenseKey, requestDomain) ==
    [step |-> "domain", clientId |-> id, patch |-> NoPatch,
     log |-> <<LogEntry(id, licenseKey, requestDomain, "invalid", "Domain mismatch")>>,
     status |-> 403,
     body |-> [valid |-> FALSE, error |-> "Domain not authorized for this license",
               expected |-> extractDomain(clientData.websiteDomain),
               got |-> requestDomain]]

\* POST, lines 127-144: the subscription gate
SubscriptionRejected(id, clientData, licenseKey, requestDomain) ==
    [step |-> "subscription", clientId |-> id, patch |-> NoPatch,
     log |-> <<LogEntry(id, licenseKey, requestDomain, "expired",
                      "Subscription status: " \o clientData.subscriptionStatus)>>,
     status |-> 402,
     body |-> [valid |-> FALSE,
               error |-> "Subscription is " \o clientData.subscriptionStatus]]

IsExpired_Inclusive(subscriptionEndDate, t) ==
    subscriptionEndDate # NoDate /\ t >= subscriptionEndDate

\* POST, lines 147-151: `if (clientData.subscriptionEndDate) { ... if (now > expiryDate)`
IsExpired(subscriptionEndDate, t) ==
    subscriptionEndDate # NoDate /\ t > subscriptionEndDate

ExpiryPatch_None == NoPatch

ExpiryPatch_Reactivates == [subscriptionStatus |-> "active"]

\* POST, lines 153-159: the update of an expired subscription
ExpiryPatch == [subscriptionStatus |-> "expired"]

\* POST, lines 153-177: the expiry check has failed
Expired(id, clientData, licenseKey, requestDomain) ==
    [step |-> "expiry", clientId |-> id, patch |-> ExpiryPatch,
     log |-> <<LogEntry(id, licenseKey, requestDomain, "expired", "Subscription expired")>>,
     status |-> 402,
     body |-> [valid |-> FALSE, error |-> "Subscription has expired"]]

SuccessPatch_AccessOnly(t) == [lastAccessDate |-> t]

\* POST, lines 181-188: the update of a valid license
SuccessPatch(t) == [lastAccessDate |-> t, lastVerificationDate |-> t]

\* POST, lines 181-211: the license is valid
Verified(id, clientData, licenseKey, requestDomain, t) ==
    [step |-> "success", clientId |-> id, patch |-> SuccessPatch(t),
     log |-> <<LogEntry(id, licenseKey, requestDomain, "valid", "null")>>,
     status |-> 200,
     body |-> [valid |-> TRUE,
               client |-> [id |-> id,
                           subscriptionType |-> clientData.subscriptionType,
                           subscriptionEndDate |-> clientData.subscriptionEndDate]]]

PostFound_SubscriptionFirst(id, clientData, licenseKey, requestDomain, t) ==
    IF clientData.status # "active"
    THEN AccountRejected(id, clientData, licenseKey, requestDomain)
    ELSE IF clientData.subscriptionStatus # "active"
    THEN SubscriptionRejected(id, clientData, licenseKey, requestDomain)
    ELSE IF requestDomain # extractDomain(clientData.websiteDomain)
    THEN DomainRejected(id, clientData, licenseKey, requestDomain)
    ELSE IF IsExpired(clientData.subscriptionEndDate, t)
    THEN Expired(id, clientData, licenseKey, requestDomain)
    ELSE Verified(id, clientData, licenseKey, requestDomain, t)

\* POST, lines 81-211: the checks on the row clientData, read at time t
PostFound(id, clientData, licenseKey, requestDomain, t) ==
    IF clientData.status # "active"
    THEN AccountRejected(id, clientData, licenseKey, requestDomain)
    ELSE IF requestDomain # extractDomain(clientData.websiteDomain)
    THEN DomainRejected(id, clientData, licenseKey, requestDomain)
    ELSE IF clientData.subscriptionStatus # "active"
    THEN SubscriptionRejected(id, clientData, licenseKey, requestDomain)
    ELSE IF IsExpired(clientData.subscriptionEndDate, t)
    THEN Expired(id, clientData, licenseKey, requestDomain)
    ELSE Verified(id, clientData, licenseKey, requestDomain, t)

\* the rows a handler found for the key, as the outcome of the POST pipeline
PostOutcomes(clients, licenseKey, requestDomain, t) ==
    IF ByLicenseKey(clients, licenseKey) = {}
    THEN {PostNotFound(licenseKey, requestDomain)}
    ELSE {PostFound(id, clients[id], licenseKey, requestDomain, t) :
              id \in ByLicenseKey(clients, licenseKey)}

\* GET, lines 252-303: the quick checks, without logging
GetOutcomes(clients, licenseKey, requestDomain, t) ==
    IF ByLicenseKey(clients, licenseKey) = {}
    THEN {[status |-> 401, body |-> [valid |-> FALSE, error |-> "Invalid license key"]]}
    ELSE {LET clientData == clients[id]
              clientDomain == extractDomain(clientData.websiteDomain)
          IN  IF clientData.status # "active" THEN
                  [status |-> 403,
                   body |-> [valid |-> FALSE, error |-> "License is " \o clientData.status]]
              ELSE IF clientData.subscriptionStatus # "active" THEN
                  [status |-> 402,
                   body |-> [valid |-> FALSE,
                             error |-> "Subscription is " \o clientData.subscriptionStatus]]
              ELSE IF requestDomain # clientDomain THEN
                  [status |-> 403,
                   body |-> [valid |-> FALSE, error |-> "Domain not authorized",
                             expected |-> clientDomain, got |-> requestDomain]]
              ELSE IF clientData.subscriptionEndDate # NoDate
                      /\ t > clientData.subscriptionEndDate THEN
                  [status |-> 402,
                   body |-> [valid |-> FALSE, error |-> "Subscription expired"]]
              ELSE
                  [status |-> 200,
                   body |-> [valid |-> TRUE, expiresAt |-> clientData.subscriptionEndDate]]
          : id \in ByLicenseKey(clients, licenseKey)}

\* the 400 of both handlers (lines 43-48 and 230-235)
MissingFields(licenseKey, domain) == licenseKey = MISSING \/ domain = <<>>

BadRequest ==
    [status |-> 400,
     body |-> [valid |-> FALSE, error |-> "License key and domain are required"]]

Answer(op, req, status, body) == [op |-> op, req |-> req, status |-> status, body |-> body]

\* export async function POST, run without interleaving
VerifyPOST(licenseKey, domain) ==
    LET req == [licenseKey |-> licenseKey, domain |-> domain] IN
    IF MissingFields(licenseKey, domain)
    THEN /\ response' = Answer("POST", req, BadRequest.status, BadRequest.body)
         /\ UNCHANGED <<saasClients, licenseVerificationLogs, now, requests, fetches>>
    ELSE /\ Len(licenseVerificationLogs) < MaxLogs
         /\ \E o \in PostOutcomes(saasClients, licenseKey, extractDomain(domain), now) :
               /\ saasClients' = IF o.patch = NoPatch THEN saasClients
                                 ELSE UpdateWhereId(saasClients, o.clientId, o.patch)
               /\ licenseVerificationLogs' = licenseVerificationLogs \o o.log
               /\ response' = Answer("POST", req, o.status, o.body)
         /\ UNCHANGED <<now, requests, fetches>>

VerifyGET_Expires(licenseKey, domain) ==
    LET req == [licenseKey |-> licenseKey, domain |-> domain] IN
    /\ IF MissingFields(licenseKey, domain)
       THEN /\ response' = Answer("GET", req, BadRequest.status, BadRequest.body)
            /\ UNCHANGED saasClients
       ELSE \E o \in GetOutcomes(saasClients, licenseKey, extractDomain(domain), now) :
               /\ response' = Answer("GET", req, o.status, o.body)
               /\ saasClients' =
                      IF o.status = 402 /\ o.body.error = "Subscription expired"
                      THEN [id \in DOMAIN saasClients |->
                               IF saasClients[id].licenseKey = licenseKey
                               THEN [saasClients[id] EXCEPT !.subscriptionStatus = "expired"]
                               ELSE saasClients[id]]
                      ELSE saasClients
    /\ UNCHANGED <<licenseVerificationLogs, now, requests, fetches>>

\* export async function GET
VerifyGET(licenseKey, domain) ==
    LET req == [licenseKey |-> licenseKey, domain |-> domain] IN
    /\ IF MissingFields(licenseKey, domain)
       THEN response' = Answer("GET", req, BadRequest.status, BadRequest.body)
       ELSE \E o \in GetOutcomes(saasClients, licenseKey, extractDomain(domain), now) :
               response' = Answer("GET", req, o.status, o.body)
    /\ UNCHANGED <<saasClients, licenseVerificationLogs, now, requests, fetches>>

\* time passes between requests
Tick ==
    /\ now < MaxTime
    /\ now' = now + 1
    /\ response' = Answer("Tick", <<>>, 0, <<>>)
    /\ UNCHANGED <<saasClients, licenseVerificationLogs, requests, fetches>>

(***************************************************************************)
(* The administrative handlers.                                            *)
(***************************************************************************)
maxAttempts == 10

UniqueKeyLoop_KeepsLast(clients, draws, attempts) ==
    LET free == {i \in 1..maxAttempts : ByLicenseKey(clients, draws[i]) = {}}
        first == IF free = {} THEN maxAttempts
                 ELSE CHOOSE i \in free : \A j \in free : i <= j
    IN  [isUnique |-> TRUE, licenseKey |-> draws[first], attempts |-> first]

\* the while loop of create (part_000 lines 119-132) and of regenerate-license
\* (lines 47-60); draws[i] is the i-th value of generateLicenseKey()
RECURSIVE UniqueKeyLoop(_, _, _)
UniqueKeyLoop(clients, draws, attempts) ==
    IF attempts >= maxAttempts
    THEN [isUnique |-> FALSE, licenseKey |-> draws[maxAttempts], attempts |-> attempts]
    ELSE IF ByLicenseKey(clients, draws[attempts + 1]) = {}
    THEN [isUnique |-> TRUE, licenseKey |-> draws[attempts + 1], attempts |-> attempts + 1]
    ELSE UniqueKeyLoop(clients, draws, attempts + 1)

\* what ten calls of generateLicenseKey() may return: c times one value, then
\* another, for the loop to end at its first, second or last pass or to give up
DrawSequences ==
    {[i \in 1..maxAttempts |-> IF i <= c THEN k1 ELSE k2] :
        c \in {0, 1, maxAttempts - 1, maxAttempts}, k1 \in LicenseKeys, k2 \in LicenseKeys}

\* a line appended to notes: `[${new Date().toISOString()}] ${text}`
NoteLine(t, text) == [at |-> t, text |-> text]

\* notes is a sequence of lines, joined by '\n': audit lines, and before them the
\* text a create or an update has stored, character by character
FreeText(chars) == [free |-> chars]

IsFreeText(line) == "free" \in DOMAIN line

\* the characters String.prototype.trim() removes
WhiteSpace == {" ", "\n"}

RECURSIVE TrimStart(_)
TrimStart(chars) ==
    IF chars # <<>> /\ Head(chars) \in WhiteSpace THEN TrimStart(Tail(chars)) ELSE chars

AppendNote_Overwrites(notes, line) == <<line>>

\* `${client.notes || ''}\n${line}`.trim(): the line is added after the text and
\* the white space at the start of the whole is removed, with the '\n' that
\* follows a text of white space only
RECURSIVE AppendNote(_, _)
AppendNote(notes, line) ==
    IF notes # <<>> /\ IsFreeText(Head(notes))
    THEN IF TrimStart(Head(notes).free) = <<>>
         THEN AppendNote(Tail(notes), line)
         ELSE <<FreeText(TrimStart(Head(notes).free))>> \o Tail(notes) \o <<line>>
    ELSE Append(notes, line)

\* the audit lines of notes
AuditLines(notes) == Cardinality({i \in 1..Len(notes) : ~IsFreeText(notes[i])})

\* part_000 lines 141-150: the end date of a new subscription
CalculatedEndDate(subscriptionType, subscriptionEndDate, t) ==
    IF subscriptionEndDate # NoDate THEN subscriptionEndDate
    ELSE IF subscriptionType = "monthly" THEN t + MonthLen
    ELSE IF subscriptionType = "yearly" THEN t + YearLen
    ELSE NoDate

\* part_000 lines 155-161: the API base URL derived from websiteUrl
ApiBaseUrl(websiteUrl) ==
    LET withScheme == IF startsWith(websiteUrl, Str_http \o <<":", "/", "/">>)
                         \/ startsWith(websiteUrl, Str_https_prefix)
                      THEN websiteUrl ELSE Str_https_prefix \o websiteUrl
    IN  IF withScheme[Len(withScheme)] = "/"
        THEN SubSeq(withScheme, 1, Len(withScheme) - 1) ELSE withScheme

\* part_000 lines 164-193: the row of a new client
NewClient(body, licenseKey, apiKey, t) ==
    LET subscriptionType == IF body.subscriptionType = MISSING THEN "monthly"
                            ELSE body.subscriptionType
    IN  [contactEmail |-> body.contactEmail,
         websiteDomain |-> body.websiteDomain,
         licenseKey |-> licenseKey,
         status |-> "active",
         subscriptionType |-> subscriptionType,
         subscriptionStatus |-> "active",
         subscriptionEndDate |->
             CalculatedEndDate(subscriptionType, body.subscriptionEndDate, t),
         lastAccessDate |-> NoDate,
         lastVerificationDate |-> NoDate,
         notes |-> body.notes,
         apiBaseUrl |-> ApiBaseUrl(body.websiteUrl),
         authType |-> "HMAC",
         apiKey |-> apiKey,
         apiStatus |-> "active"]

\* POST /api/saas/clients (part_000 lines 76-246), run without interleaving;
\* ids are the values uuidv4() may return
CreateClient(ids, body, draws, apiKey) ==
    LET loop == UniqueKeyLoop(saasClients, draws, 0) IN
    /\ IF body.contactEmail = MISSING \/ body.websiteUrl = <<>> \/ body.websiteDomain = <<>>
       THEN /\ response' = Answer("create", body, 400, [success |-> FALSE])
            /\ UNCHANGED saasClients
       ELSE IF ByEmail(saasClients, body.contactEmail) # {}
       THEN /\ response' = Answer("create", body, 409, [success |-> FALSE])
            /\ UNCHANGED saasClients
       ELSE IF ~loop.isUnique
       THEN /\ response' = Answer("create", body, 500,
                                  [success |-> FALSE,
                                   error |-> "Failed to generate unique license key"])
            /\ UNCHANGED saasClients
       ELSE \E id \in ids \ Ids :
              LET newClient == NewClient(body, loop.licenseKey, apiKey, now) IN
              /\ saasClients' = InsertClient(saasClients, id, newClient)
              /\ response' = Answer("create", body, 201,
                                    [success |-> TRUE, id |-> id, data |-> newClient])
    /\ UNCHANGED <<licenseVerificationLogs, now, requests, fetches>>

\* PUT /api/saas/clients/[id], lines 93-108: the fields the body carries
UpdateData(body) ==
    [f \in DOMAIN body |-> body[f]]

\* PUT /api/saas/clients/[id] (route.ts lines 42-136)
UpdateClient(id, body) ==
    /\ IF id \notin Ids
       THEN /\ response' = Answer("update", [id |-> id, body |-> body], 404,
                                  [success |-> FALSE])
            /\ UNCHANGED saasClients
       ELSE IF /\ "contactEmail" \in DOMAIN body
               /\ body.contactEmail # MISSING
               /\ body.contactEmail # saasClients[id].contactEmail
               /\ ByEmail(saasClients, body.contactEmail) # {}
       THEN /\ response' = Answer("update", [id |-> id, body |-> body], 409,
                                  [success |-> FALSE])
            /\ UNCHANGED saasClients
       ELSE /\ saasClients' = UpdateWhereId(saasClients, id, UpdateData(body))
            /\ response' = Answer("update", [id |-> id, body |-> body], 200,
                                  [success |-> TRUE, data |-> saasClients'[id]])
    /\ UNCHANGED <<licenseVerificationLogs, now, requests, fetches>>

ActionUpper == [enable |-> "ENABLE", disable |-> "DISABLE", suspend |-> "SUSPEND"]

TogglePatch_SuspendStatusOnly(client, action, reason, t) ==
    [status |-> IF action = "enable" THEN "active" ELSE "suspended",
     subscriptionStatus |->
         IF action = "enable" /\ client.subscriptionStatus = "cancelled" THEN "active"
         ELSE client.subscriptionStatus,
     notes |-> IF reason # MISSING
               THEN AppendNote(client.notes, NoteLine(t, ActionUpper[action] \o ": " \o reason))
               ELSE client.notes]

TogglePatch_DisableSuspends(client, action, reason, t) ==
    [status |-> IF action = "enable" THEN "active" ELSE "suspended",
     subscriptionStatus |->
         IF action = "enable" /\ client.subscriptionStatus = "cancelled" THEN "active"
         ELSE IF action \in {"suspend", "disable"} THEN "suspended"
         ELSE client.subscriptionStatus,
     notes |-> IF reason # MISSING
               THEN AppendNote(client.notes, NoteLine(t, ActionUpper[action] \o ": " \o reason))
               ELSE client.notes]

TogglePatch_EnableRevives(client, action, reason, t) ==
    [status |-> IF action = "enable" THEN "active" ELSE "suspended",
     subscriptionStatus |->
         IF action = "enable" THEN "active"
         ELSE IF action = "suspend" THEN "suspended"
         ELSE client.subscriptionStatus,
     notes |-> IF reason # MISSING
               THEN AppendNote(client.notes, NoteLine(t, ActionUpper[action] \o ": " \o reason))
               ELSE client.notes]

\* toggle-status/route.ts lines 39-73: the update computed from the row read
TogglePatch(client, action, reason, t) ==
    [status |-> IF action = "enable" THEN "active" ELSE "suspended",
     subscriptionStatus |->
         IF action = "enable" /\ client.subscriptionStatus = "cancelled" THEN "active"
         ELSE IF action = "suspend" THEN "suspended"
         ELSE client.subscriptionStatus,
     notes |-> IF reason # MISSING
               THEN AppendNote(client.notes, NoteLine(t, ActionUpper[action] \o ": " \o reason))
               ELSE client.notes]

\* POST /api/saas/clients/[id]/toggle-status
ToggleStatus(id, action, reason) ==
    LET req == [id |-> id, action |-> action, reason |-> reason] IN
    /\ IF action \notin ToggleActions
       THEN /\ response' = Answer("toggle", req, 400, [success |-> FALSE])
            /\ UNCHANGED saasClients
       ELSE IF id \notin Ids
       THEN /\ response' = Answer("toggle", req, 404, [success |-> FALSE])
            /\ UNCHANGED saasClients
       ELSE /\ reason # MISSING => AuditLines(saasClients[id].notes) < MaxNotes
            /\ saasClients' = UpdateWhereId(saasClients, id,
                                   TogglePatch(saasClients[id], action, reason, now))
            /\ response' = Answer("toggle", req, 200,
                                  [success |-> TRUE, data |-> saasClients'[id]])
    /\ UNCHANGED <<licenseVerificationLogs, now, requests, fetches>>

RegeneratePatch_NotesOnly(client, newLicenseKey, t) ==
    [notes |-> AppendNote(client.notes,
                          NoteLine(t, "License key regenerated. Old key: " \o client.licenseKey))]

\* regenerate-license/route.ts lines 69-77: the update of the row read
RegeneratePatch(client, newLicenseKey, t) ==
    [licenseKey |-> newLicenseKey,
     notes |-> AppendNote(client.notes,
                          NoteLine(t, "License key regenerated. Old key: " \o client.licenseKey))]

\* POST /api/saas/clients/[id]/regenerate-license, run without interleaving
RegenerateLicense(id, draws) ==
    LET req == [id |-> id]
        loop == UniqueKeyLoop(saasClients, draws, 0)
    IN
    /\ IF id \notin Ids
       THEN /\ response' = Answer("regenerate-license", req, 404, [success |-> FALSE])
            /\ UNCHANGED saasClients
       ELSE IF ~loop.isUnique
       THEN /\ response' = Answer("regenerate-license", req, 500,
                                  [success |-> FALSE,
                                   error |-> "Failed to generate unique license key"])
            /\ UNCHANGED saasClients
       ELSE /\ AuditLines(saasClients[id].notes) < MaxNotes
            /\ saasClients' = UpdateWhereId(saasClients, id,
                                   RegeneratePatch(saasClients[id], loop.licenseKey, now))
            /\ response' = Answer("regenerate-license", req, 200,
                                  [success |-> TRUE, data |-> saasClients'[id],
                                   oldLicenseKey |-> saasClients[id].licenseKey])
    /\ UNCHANGED <<licenseVerificationLogs, now, requests, fetches>>

(***************************************************************************)
(* Spec: license verification.  The store holds clients as create and      *)
(* update leave them; verification requests are served one after the       *)
(* other while time passes.                                                *)
(***************************************************************************)
VerifyKeys == {"LIC-A", "LIC-B", MISSING}
VerifyDomains == {<<>>, Str_A_IO, Str_b_io}

\* a row as NewClient builds it and UpdateClient edits status, subscriptionStatus
\* and subscriptionEndDate
StoredClient(contactEmail, licenseKey, websiteDomain, status, subscriptionStatus, endDate) ==
    [contactEmail |-> contactEmail,
     websiteDomain |-> websiteDomain,
     licenseKey |-> licenseKey,
     status |-> status,
     subscriptionType |-> IF endDate = NoDate THEN "lifetime" ELSE "monthly",
     subscriptionStatus |-> subscriptionStatus,
     subscriptionEndDate |-> endDate,
     lastAccessDate |-> NoDate,
     lastVerificationDate |-> NoDate,
     notes |-> <<>>,
     apiBaseUrl |-> ApiBaseUrl(Str_https_a_io_slash),
     authType |-> "HMAC",
     apiKey |-> "api-1",
     apiStatus |-> "active"]

\* a second client, of another domain, whose license is in order
OtherClient == StoredClient("b@x.io", "LIC-B", Str_b_io, "active", "active", NoDate)

VerifyStores ==
    {<<>>}
    \cup {[id \in {"c1", "c2"} |->
               IF id = "c1" THEN StoredClient("a@x.io", "LIC-A", w, s, ss, e)
               ELSE OtherClient] :
             w \in {Str_a_io, Str_https_a_io_slash}, s \in Statuses,
             ss \in SubscriptionStatuses, e \in 0..MaxTime}

Init ==
    /\ saasClients \in VerifyStores
    /\ licenseVerificationLogs = <<>>
    /\ now = 1
    /\ response = Answer("none", <<>>, 0, <<>>)
    /\ requests = <<>>
    /\ fetches = <<>>

Next ==
    \/ \E k \in VerifyKeys, d \in VerifyDomains : VerifyPOST(k, d)
    \/ \E k \in VerifyKeys, d \in VerifyDomains : VerifyGET(k, d)
    \/ Tick

Spec == Init /\ [][Next]_vars

(***************************************************************************)
(* Properties of license verification (Spec).                              *)
(***************************************************************************)
\* the client a request's license key resolves to is in order at time t
InOrder(client, t) ==
    /\ client.status = "active"
    /\ client.subscriptionStatus = "active"
    /\ (client.subscriptionEndDate = NoDate \/ ~(t > client.subscriptionEndDate))

\* the request answered by the step matches the client's key and canonical domain
Presents(req, client) ==
    /\ req.licenseKey = client.licenseKey
    /\ extractDomain(req.domain) = extractDomain(client.websiteDomain)

\* C1: a POST with the key and (canonically) the domain of a client that is
\* active, has an active subscription and an end date that is null or not in
\* the past answers 200 valid:true and sets lastAccessDate and
\* lastVerificationDate to now, at every time when the end date is null.
C1_ValidLicenseVerifies ==
    [][\A id \in DOMAIN saasClients :
          (/\ response'.op = "POST"
           /\ Presents(response'.req, saasClients[id])
           /\ InOrder(saasClients[id], now))
          => /\ response'.status = 200
             /\ response'.body.valid = TRUE
             /\ saasClients'[id].lastAccessDate = now
             /\ saasClients'[id].lastVerificationDate = now]_vars

C1_Witness ==
    /\ "c1" \in DOMAIN saasClients
    /\ response.op = "POST"
    /\ response.status = 200
    /\ response.req.licenseKey = "LIC-A"
    /\ saasClients["c1"].subscriptionEndDate = NoDate
    /\ now = MaxTime
    /\ saasClients["c1"].lastAccessDate = now
    /\ saasClients["c1"].lastVerificationDate = now

\* C2 as claimed: every POST attempt, whatever its outcome, adds exactly one
\* entry to the verification log, and no GET adds one.
C2_OneEntryPerPostAttempt ==
    [][/\ response'.op = "POST" =>
             Len(licenseVerificationLogs') = Len(licenseVerificationLogs) + 1
       /\ response'.op = "GET" =>
             licenseVerificationLogs' = licenseVerificationLogs]_vars

\* C2 as amended: a POST that carries both licenseKey and domain appends
\* exactly one entry, for its key and canonical domain, whatever the outcome
\* of the pipeline (401, 403, 402 or 200); a POST rejected with 400 for a
\* missing field appends none, and neither does a GET.
C2_OneEntryPerPipelineRun ==
    [][/\ (response'.op = "POST" /\ response'.status # 400) =>
             /\ Len(licenseVerificationLogs') = Len(licenseVerificationLogs) + 1
             /\ SubSeq(licenseVerificationLogs', 1, Len(licenseVerificationLogs))
                    = licenseVerificationLogs
             /\ licenseVerificationLogs'[Len(licenseVerificationLogs')].licenseKey
                    = response'.req.licenseKey
             /\ licenseVerificationLogs'[Len(licenseVerificationLogs')].requestDomain
                    = extractDomain(response'.req.domain)
       /\ (response'.op = "POST" /\ response'.status = 400) =>
             /\ MissingFields(response'.req.licenseKey, response'.req.domain)
             /\ licenseVerificationLogs' = licenseVerificationLogs
       /\ (response'.op = "POST"
             /\ ~MissingFields(response'.req.licenseKey, response'.req.domain)) =>
             response'.status \in {401, 403, 402, 200}
       /\ response'.op = "GET" =>
             licenseVerificationLogs' = licenseVerificationLogs]_vars

C2_Witness ==
    /\ Len(licenseVerificationLogs) = 2
    /\ licenseVerificationLogs[1].verificationStatus = "invalid"
    /\ licenseVerificationLogs[2].verificationStatus = "valid"
    /\ response.op = "GET"

\* C3: a POST that carries both fields is answered by the first failing
\* step in the order lookup (401), account gate (403), domain binding (403),
\* subscription gate (402), expiry check (402), and by 200 valid:true when
\* none fails; a step that fails ends the request, so a rejection before
\* the expiry check leaves every client row as it was.
C3_FirstFailingStep ==
    [][(/\ response'.op = "POST"
        /\ ~MissingFields(response'.req.licenseKey, response'.req.domain))
       => LET found == ByLicenseKey(saasClients, response'.req.licenseKey)
              got == extractDomain(response'.req.domain)
              r == response'
          IN  IF found = {}
              THEN /\ r.status = 401 /\ r.body.error = "Invalid license key"
                   /\ saasClients' = saasClients
              ELSE \E id \in found :
                   LET c == saasClients[id] IN
                   IF c.status # "active"
                   THEN /\ r.status = 403 /\ r.body.error = "License is " \o c.status
                        /\ saasClients' = saasClients
                   ELSE IF got # extractDomain(c.websiteDomain)
                   THEN /\ r.status = 403
                        /\ r.body.error = "Domain not authorized for this license"
                        /\ saasClients' = saasClients
                   ELSE IF c.subscriptionStatus # "active"
                   THEN /\ r.status = 402
                        /\ r.body.error = "Subscription is " \o c.subscriptionStatus
                        /\ saasClients' = saasClients
                   ELSE IF c.subscriptionEndDate # NoDate /\ now > c.subscriptionEndDate
                   THEN /\ r.status = 402 /\ r.body.error = "Subscription has expired"
                   ELSE /\ r.status = 200 /\ r.body.valid = TRUE]_vars

\* a suspended client queried from a foreign domain gets the account gate's answer
C3_Witness ==
    /\ "c1" \in DOMAIN saasClients
    /\ response.op = "POST"
    /\ response.req.licenseKey = "LIC-A"
    /\ extractDomain(response.req.domain) # extractDomain(saasClients["c1"].websiteDomain)
    /\ saasClients["c1"].status = "suspended"
    /\ saasClients["c1"].subscriptionStatus = "expired"
    /\ response.status = 403
    /\ response.body.error = "License is suspended"

\* C4: when lookup, account gate, domain binding and subscription gate pass,
\* an end date strictly before now makes the stored subscriptionStatus
\* expired and the answer 402 'Subscription has expired'; a null or not yet
\* passed end date leaves subscriptionStatus as it was.
C4_ExpiryCheck ==
    [][\A id \in DOMAIN saasClients :
          (/\ response'.op = "POST"
           /\ Presents(response'.req, saasClients[id])
           /\ saasClients[id].status = "active"
           /\ saasClients[id].subscriptionStatus = "active")
          => IF /\ saasClients[id].subscriptionEndDate # NoDate
                /\ saasClients[id].subscriptionEndDate < now
             THEN /\ saasClients'[id].subscriptionStatus = "expired"
                  /\ response'.status = 402
                  /\ response'.body.valid = FALSE
                  /\ response'.body.error = "Subscription has expired"
             ELSE saasClients'[id].subscriptionStatus
                     = saasClients[id].subscriptionStatus]_vars

C4_Witness ==
    /\ "c1" \in DOMAIN saasClients
    /\ response.op = "POST"
    /\ response.status = 402
    /\ response.body.error = "Subscription has expired"
    /\ saasClients["c1"].subscriptionStatus = "expired"
    /\ saasClients["c1"].subscriptionEndDate # NoDate
    /\ saasClients["c1"].subscriptionEndDate < now

\* the step is the verification that follows at once the one that found the
\* subscription expired, with the same key and domain
SecondAfterExpiry ==
    /\ response.op = "POST"
    /\ response.status = 402
    /\ response.body.error = "Subscription has expired"
    /\ response'.op = "POST"
    /\ response'.req = response.req

\* the POST of this step finds an active client, of the domain, whose end date passed
FirstAfterExpiry(id) ==
    /\ response'.op = "POST"
    /\ Presents(response'.req, saasClients[id])
    /\ saasClients[id].status = "active"
    /\ saasClients[id].subscriptionStatus = "active"
    /\ saasClients[id].subscriptionEndDate # NoDate
    /\ saasClients[id].subscriptionEndDate < now

\* C5 as claimed: the first verification after the end date flips
\* subscriptionStatus to expired and answers valid:false, and a second one
\* right after it answers valid:false with the same error and changes nothing.
C5_SecondVerificationSameError ==
    [][/\ \A id \in DOMAIN saasClients :
             FirstAfterExpiry(id) =>
                 /\ saasClients'[id].subscriptionStatus = "expired"
                 /\ response'.body.valid = FALSE
       /\ SecondAfterExpiry =>
             /\ response'.body.valid = FALSE
             /\ response'.body.error = response.body.error
             /\ saasClients' = saasClients]_vars

\* C5 as amended: the first verification after the end date flips
\* subscriptionStatus to expired and answers 402 valid:false 'Subscription has
\* expired'; a second one right after it also answers 402 valid:false and
\* changes no client row, but its error is the subscription gate's
\* 'Subscription is expired'.
C5_SecondVerificationStillInvalid ==
    [][/\ \A id \in DOMAIN saasClients :
             FirstAfterExpiry(id) =>
                 /\ saasClients'[id].subscriptionStatus = "expired"
                 /\ response'.status = 402
                 /\ response'.body.valid = FALSE
                 /\ response'.body.error = "Subscription has expired"
       /\ SecondAfterExpiry =>
             /\ response'.status = 402
             /\ response'.body.valid = FALSE
             /\ response'.body.error = "Subscription is expired"
             /\ saasClients' = saasClients]_vars

C5_Witness ==
    /\ "c1" \in DOMAIN saasClients
    /\ Len(licenseVerificationLogs) = 2
    /\ licenseVerificationLogs[1].errorMessage = "Subscription expired"
    /\ licenseVerificationLogs[2].errorMessage = "Subscription status: expired"
    /\ licenseVerificationLogs[1].clientId = "c1"
    /\ licenseVerificationLogs[2].clientId = "c1"
    /\ response.op = "POST"
    /\ response.body.error = "Subscription is expired"
    /\ saasClients["c1"].subscriptionStatus = "expired"

\* the status codes POST gives a request in the current state
PostStatuses(licenseKey, domain) ==
    IF MissingFields(licenseKey, domain) THEN {BadRequest.status}
    ELSE {o.status : o \in PostOutcomes(saasClients, licenseKey, extractDomain(domain), now)}

\* C6 as claimed: GET answers every (license, domain) with the status code
\* POST gives the same input in the same state.
C6_GetStatusIsPostStatus ==
    [][response'.op = "GET" =>
          response'.status \in PostStatuses(response'.req.licenseKey,
                                           response'.req.domain)]_vars

\* C7: GET changes no client row and no log entry, also when it finds an
\* elapsed end date and when it answers valid:true.
C7_GetIsReadOnly ==
    [][response'.op = "GET" =>
          /\ saasClients' = saasClients
          /\ licenseVerificationLogs' = licenseVerificationLogs]_vars

C7_Witness ==
    /\ "c1" \in DOMAIN saasClients
    /\ response.op = "GET"
    /\ response.status = 402
    /\ response.body.error = "Subscription expired"
    /\ saasClients["c1"].subscriptionStatus = "active"
    /\ saasClients["c1"].subscriptionEndDate < now

(***************************************************************************)
(* RaceSpec: create and regenerate-license requests in flight together.    *)
(* Every await of a handler is a step of its own; requests[s] is the frame *)
(* of the handler running in slot s.                                       *)
(***************************************************************************)
MaxInFlight == 2
Slots == 1..MaxInFlight
Idle == [pc |-> "idle"]
Awaiting == Answer("await", <<>>, 0, <<>>)

RaceKeys == {"LIC-A", "LIC-B"}
RaceBodies ==
    {[contactEmail |-> e, websiteUrl |-> Str_https_a_io_slash, websiteDomain |-> Str_a_io,
      subscriptionType |-> "lifetime", subscriptionEndDate |-> NoDate, notes |-> <<>>] :
        e \in Emails}

\* specification section 5: the uniqueness checks are check-then-insert with no
\* transactional isolation; the store compares no licenseKey when it writes a row
StoreAccepts(clients, licenseKey) == TRUE

\* one pass of the while loop: generateLicenseKey(), the select, isUnique, attempts++
LoopIteration(frame, clients, licenseKey) ==
    [frame EXCEPT !.licenseKey = licenseKey,
                  !.isUnique = ByLicenseKey(clients, licenseKey) = {},
                  !.attempts = @ + 1]

LoopRuns(frame) == ~frame.isUnique /\ frame.attempts < maxAttempts

\* create: the body is read, the required fields and the email are checked
CreateBegin(s, body) ==
    /\ requests[s] = Idle
    /\ IF body.contactEmail = MISSING \/ body.websiteUrl = <<>> \/ body.websiteDomain = <<>>
       THEN /\ response' = Answer("create", body, 400, [success |-> FALSE])
            /\ UNCHANGED requests
       ELSE IF ByEmail(saasClients, body.contactEmail) # {}
       THEN /\ response' = Answer("create", body, 409, [success |-> FALSE])
            /\ UNCHANGED requests
       ELSE /\ requests' = [requests EXCEPT ![s] =
                               [pc |-> "create", body |-> body, licenseKey |-> MISSING,
                                isUnique |-> FALSE, attempts |-> 0]]
            /\ response' = Awaiting
    /\ UNCHANGED <<saasClients, licenseVerificationLogs, now, fetches>>

\* create: one pass of the key loop
CreateKeyStep(s, licenseKey) ==
    /\ requests[s].pc = "create"
    /\ LoopRuns(requests[s])
    /\ requests' = [requests EXCEPT ![s] = LoopIteration(@, saasClients, licenseKey)]
    /\ response' = Awaiting
    /\ UNCHANGED <<saasClients, licenseVerificationLogs, now, fetches>>

\* create: after the loop, the 500 or the insert and the 201
CreateFinish(s, ids, apiKey) ==
    LET frame == requests[s] IN
    /\ frame.pc = "create"
    /\ ~LoopRuns(frame)
    /\ IF ~frame.isUnique
       THEN /\ response' = Answer("create", frame.body, 500,
                                  [success |-> FALSE,
                                   error |-> "Failed to generate unique license key"])
            /\ UNCHANGED saasClients
       ELSE \E id \in ids \ Ids :
              LET newClient == NewClient(frame.body, frame.licenseKey, apiKey, now) IN
              /\ StoreAccepts(saasClients, frame.licenseKey)
              /\ saasClients' = InsertClient(saasClients, id, newClient)
              /\ response' = Answer("create", frame.body, 201,
                                    [success |-> TRUE, id |-> id, data |-> newClient])
    /\ requests' = [requests EXCEPT ![s] = Idle]
    /\ UNCHANGED <<licenseVerificationLogs, now, fetches>>

\* regenerate-license: the client is read
RegenerateBegin(s, id) ==
    /\ requests[s] = Idle
    /\ IF id \notin Ids
       THEN /\ response' = Answer("regenerate-license", [id |-> id], 404, [success |-> FALSE])
            /\ UNCHANGED requests
       ELSE /\ requests' = [requests EXCEPT ![s] =
                               [pc |-> "regenerate", id |-> id, client |-> saasClients[id],
                                licenseKey |-> MISSING, isUnique |-> FALSE, attempts |-> 0]]
            /\ response' = Awaiting
    /\ UNCHANGED <<saasClients, licenseVerificationLogs, now, fetches>>

\* regenerate-license: one pass of the key loop
RegenerateKeyStep(s, licenseKey) ==
    /\ requests[s].pc = "regenerate"
    /\ LoopRuns(requests[s])
    /\ requests' = [requests EXCEPT ![s] = LoopIteration(@, saasClients, licenseKey)]
    /\ response' = Awaiting
    /\ UNCHANGED <<saasClients, licenseVerificationLogs, now, fetches>>

\* regenerate-license: after the loop, the 500 or the update and the 200
RegenerateFinish(s) ==
    LET frame == requests[s]
        req == [id |-> frame.id]
    IN
    /\ frame.pc = "regenerate"
    /\ ~LoopRuns(frame)
    /\ IF ~frame.isUnique
       THEN /\ response' = Answer("regenerate-license", req, 500,
                                  [success |-> FALSE,
                                   error |-> "Failed to generate unique license key"])
            /\ UNCHANGED saasClients
       ELSE /\ AuditLines(frame.client.notes) < MaxNotes
            /\ StoreAccepts(saasClients, frame.licenseKey)
            /\ saasClients' = UpdateWhereId(saasClients, frame.id,
                                   RegeneratePatch(frame.client, frame.licenseKey, now))
            /\ response' = Answer("regenerate-license", req, 200,
                                  [success |-> TRUE, data |-> saasClients'[frame.id],
                                   oldLicenseKey |-> frame.client.licenseKey])
    /\ requests' = [requests EXCEPT ![s] = Idle]
    /\ UNCHANGED <<licenseVerificationLogs, now, fetches>>

RaceInit ==
    /\ saasClients = <<>>
    /\ licenseVerificationLogs = <<>>
    /\ now = 1
    /\ response = Answer("none", <<>>, 0, <<>>)
    /\ requests = [s \in Slots |-> Idle]
    /\ fetches = <<>>

RaceNext ==
    \/ \E s \in Slots, body \in RaceBodies : CreateBegin(s, body)
    \/ \E s \in Slots, k \in RaceKeys : CreateKeyStep(s, k)
    \/ \E s \in Slots : CreateFinish(s, ClientIds, "api-1")
    \/ \E s \in Slots, id \in ClientIds : RegenerateBegin(s, id)
    \/ \E s \in Slots, k \in RaceKeys : RegenerateKeyStep(s, k)
    \/ \E s \in Slots : RegenerateFinish(s)

RaceSpec == RaceInit /\ [][RaceNext]_vars

\* C8: in every reachable state of the tenant store, after any sequence and any
\* interleaving of create and regenerate-license requests, no two tenant records
\* hold the same licenseKey.
C8_UniqueLicenseKeys ==
    \A i \in Ids, j \in Ids : i # j => saasClients[i].licenseKey # saasClients[j].licenseKey

(***************************************************************************)
(* RotationSpec: license keys are regenerated while tenants verify; the    *)
(* requests are served one after the other.                                *)
(***************************************************************************)
RotationDomains == {<<>>, Str_a_io}

\* a client of a.io, alone or beside the client of b.io
RotationStores ==
    {[id \in ids |->
          IF id = "c1" THEN StoredClient("a@x.io", "LIC-A", Str_a_io, s, "active", NoDate)
          ELSE OtherClient] :
        ids \in {{"c1"}, {"c1", "c2"}}, s \in {"active", "suspended"}}

RotationInit ==
    /\ saasClients \in RotationStores
    /\ licenseVerificationLogs = <<>>
    /\ now = 1
    /\ response = Answer("none", <<>>, 0, <<>>)
    /\ requests = <<>>
    /\ fetches = <<>>

RotationNext ==
    \/ \E id \in ClientIds, draws \in DrawSequences : RegenerateLicense(id, draws)
    \/ \E k \in LicenseKeys, d \in RotationDomains : VerifyPOST(k, d)
    \/ \E k \in LicenseKeys, d \in RotationDomains : VerifyGET(k, d)

RotationSpec == RotationInit /\ [][RotationNext]_vars

Regenerated(r) == r.op = "regenerate-license" /\ r.status = 200
Verification(r) == r.op \in {"POST", "GET"} /\ ~MissingFields(r.req.licenseKey, r.req.domain)
LastLog == licenseVerificationLogs[Len(licenseVerificationLogs)]

\* C9: right after a successful regenerate-license the stored licenseKey differs
\* from the old key, which no record holds any more; the verification, full or
\* lightweight, that follows and presents the old key with a domain is answered
\* 401 'Invalid license key', and the one that presents the new key is resolved
\* to the tenant (a full verification logs the tenant's id).
C9_RegenerateInvalidatesOldKey ==
    [][/\ Regenerated(response') =>
            LET id == response'.req.id IN
            /\ saasClients'[id].licenseKey # saasClients[id].licenseKey
            /\ response'.body.oldLicenseKey = saasClients[id].licenseKey
            /\ ByLicenseKey(saasClients', saasClients[id].licenseKey) = {}
            /\ ByLicenseKey(saasClients', saasClients'[id].licenseKey) = {id}
       /\ (Regenerated(response) /\ Verification(response')) =>
            /\ response'.req.licenseKey = response.body.oldLicenseKey =>
                   /\ response'.status = 401
                   /\ response'.body = [valid |-> FALSE, error |-> "Invalid license key"]
            /\ response'.req.licenseKey = response.body.data.licenseKey =>
                   /\ response'.status # 401
                   /\ response'.op = "POST" => LastLog'.clientId = response.req.id
      ]_vars

\* a key was regenerated, and a full verification presenting the old key, which the
\* notes record, has been answered 401 and logged as not found
C9_Witness ==
    /\ response.op = "POST"
    /\ response.status = 401
    /\ \E id \in Ids :
          /\ saasClients[id].notes # <<>>
          /\ saasClients[id].notes[1].text =
                 "License key regenerated. Old key: " \o response.req.licenseKey
          /\ saasClients[id].licenseKey # response.req.licenseKey
    /\ LastLog.errorMessage = "License key not found"

(***************************************************************************)
(* LifecycleSpec: the administrator creates clients, edits them and        *)
(* toggles their status; the requests are served one after the other.      *)
(***************************************************************************)
\* one client to administer: a second create with its email is answered 409
LifecycleBodies ==
    {[contactEmail |-> "a@x.io", websiteUrl |-> Str_https_a_io_slash,
      websiteDomain |-> Str_a_io, subscriptionType |-> t, subscriptionEndDate |-> NoDate,
      notes |-> <<>>] : t \in {"monthly", "lifetime"}}

\* the bodies of PUT: one field each
LifecycleUpdates ==
    {[subscriptionStatus |-> s] : s \in SubscriptionStatuses}
    \cup {[status |-> s] : s \in Statuses}

\* generateLicenseKey() returns LIC-A, once or nine times, and then LIC-B
LifecycleDraws == {d \in DrawSequences : d[1] = "LIC-A" /\ d[maxAttempts] = "LIC-B"}

LifecycleActions == ToggleActions \cup {"delete"}
LifecycleReasons == {MISSING, "overdue"}

LifecycleInit ==
    /\ saasClients = <<>>
    /\ licenseVerificationLogs = <<>>
    /\ now = 1
    /\ response = Answer("none", <<>>, 0, <<>>)
    /\ requests = <<>>
    /\ fetches = <<>>

LifecycleNext ==
    \/ \E body \in LifecycleBodies, draws \in LifecycleDraws :
          CreateClient(ClientIds, body, draws, "api-1")
    \/ \E id \in ClientIds, body \in LifecycleUpdates : UpdateClient(id, body)
    \/ \E id \in ClientIds, a \in LifecycleActions, r \in LifecycleReasons :
          ToggleStatus(id, a, r)

LifecycleSpec == LifecycleInit /\ [][LifecycleNext]_vars

\* C10: toggle-status with action=enable succeeds on every existing client whatever
\* its prior state and sets status=active; the subscriptionStatus becomes active if
\* it was cancelled and is otherwise left as it was (expired, suspended or active),
\* so it changes if and only if it was cancelled.
C10_EnableIsAsymmetric ==
    [][(response'.op = "toggle" /\ response'.req.action = "enable"
            /\ response'.req.id \in Ids) =>
          LET prior == saasClients[response'.req.id]
              after == saasClients'[response'.req.id]
          IN  /\ response'.status = 200
              /\ after.status = "active"
              /\ after.subscriptionStatus =
                     IF prior.subscriptionStatus = "cancelled" THEN "active"
                     ELSE prior.subscriptionStatus
              /\ after.subscriptionStatus # prior.subscriptionStatus
                     <=> prior.subscriptionStatus = "cancelled"
      ]_vars

\* enable, with a reason, has answered 200 for a client whose subscription is
\* expired: the account is active and the subscription is expired still
C10_Witness ==
    /\ response.op = "toggle"
    /\ response.req.action = "enable"
    /\ response.status = 200
    /\ saasClients[response.req.id].status = "active"
    /\ saasClients[response.req.id].subscriptionStatus = "expired"
    /\ saasClients[response.req.id].notes # <<>>
    /\ saasClients[response.req.id].notes[1].text = "ENABLE: overdue"

ApiFields == {"apiBaseUrl", "authType", "apiKey", "apiStatus"}

\* C11: toggle-status with action=disable succeeds on every existing client whatever
\* its prior state, sets status=suspended and leaves subscriptionStatus, licenseKey,
\* websiteDomain and the API fields as they were before the request.
C11_DisableTouchesStatusOnly ==
    [][(response'.op = "toggle" /\ response'.req.action = "disable"
            /\ response'.req.id \in Ids) =>
          LET prior == saasClients[response'.req.id]
              after == saasClients'[response'.req.id]
          IN  /\ response'.status = 200
              /\ after.status = "suspended"
              /\ \A f \in {"subscriptionStatus", "licenseKey", "websiteDomain"} \cup ApiFields :
                    after[f] = prior[f]
      ]_vars

\* disable, with a reason, has answered 200 for a client whose subscription is
\* cancelled: the account is suspended and the subscription is cancelled still
C11_Witness ==
    /\ response.op = "toggle"
    /\ response.req.action = "disable"
    /\ response.status = 200
    /\ saasClients[response.req.id].status = "suspended"
    /\ saasClients[response.req.id].subscriptionStatus = "cancelled"
    /\ saasClients[response.req.id].notes # <<>>
    /\ saasClients[response.req.id].notes[1].text = "DISABLE: overdue"

(***************************************************************************)
(* SuspensionSpec: the administrator toggles a client's status and edits   *)
(* its subscription status while the client verifies its license.          *)
(***************************************************************************)
SuspensionDomains == {Str_A_IO, Str_b_io}

\* the bodies of PUT: the subscription status alone
SuspensionUpdates == {[subscriptionStatus |-> s] : s \in SubscriptionStatuses}

SuspensionInit ==
    /\ saasClients = [id \in {"c1"} |->
                         StoredClient("a@x.io", "LIC-A", Str_a_io, "active", "active", NoDate)]
    /\ licenseVerificationLogs = <<>>
    /\ now = 1
    /\ response = Answer("none", <<>>, 0, <<>>)
    /\ requests = <<>>
    /\ fetches = <<>>

SuspensionNext ==
    \/ \E a \in ToggleActions, r \in LifecycleReasons : ToggleStatus("c1", a, r)
    \/ \E body \in SuspensionUpdates : UpdateClient("c1", body)
    \/ \E d \in SuspensionDomains : VerifyPOST("LIC-A", d)
    \/ \E d \in SuspensionDomains : VerifyGET("LIC-A", d)

SuspensionSpec == SuspensionInit /\ [][SuspensionNext]_vars

Toggled(r, action) == r.op = "toggle" /\ r.req.action = action /\ r.req.id \in Ids

\* C12: suspend sets status=suspended and subscriptionStatus=suspended whatever the
\* prior state; an enable of a client whose subscription is suspended restores
\* status=active and leaves the subscription suspended; a suspended subscription
\* status is changed by an administrative update only; and as long as it is
\* suspended no verification of the client is valid: with the account active and
\* the client's own domain the answer is 402 'Subscription is suspended'.
C12_SuspendOutlastsEnable ==
    [][/\ Toggled(response', "suspend") =>
             /\ response'.status = 200
             /\ saasClients'[response'.req.id].status = "suspended"
             /\ saasClients'[response'.req.id].subscriptionStatus = "suspended"
       /\ (Toggled(response', "enable")
              /\ saasClients[response'.req.id].subscriptionStatus = "suspended") =>
             /\ saasClients'[response'.req.id].status = "active"
             /\ saasClients'[response'.req.id].subscriptionStatus = "suspended"
       /\ \A id \in Ids :
             (saasClients[id].subscriptionStatus = "suspended"
                 /\ saasClients'[id].subscriptionStatus # "suspended") =>
                response'.op = "update"
       /\ Verification(response') =>
             \A id \in ByLicenseKey(saasClients, response'.req.licenseKey) :
                saasClients[id].subscriptionStatus = "suspended" =>
                   /\ response'.body.valid = FALSE
                   /\ (saasClients[id].status = "active"
                          /\ extractDomain(response'.req.domain)
                                = extractDomain(saasClients[id].websiteDomain)) =>
                         /\ response'.status = 402
                         /\ response'.body.error = "Subscription is suspended"
      ]_vars

\* the client was suspended, with a reason, and enabled again; its full verification
\* is answered 402 'Subscription is suspended'
C12_Witness ==
    /\ response.op = "POST"
    /\ response.status = 402
    /\ response.body.error = "Subscription is suspended"
    /\ saasClients["c1"].status = "active"
    /\ saasClients["c1"].notes # <<>>
    /\ saasClients["c1"].notes[1].text = "SUSPEND: overdue"

(***************************************************************************)
(* lib/tenant-api.ts, the users page of a tenant and regenerate-api-key    *)
(***************************************************************************)
MaxFetches == 2

ApiStatuses == {"active", "paused"}
AuthTypes == {"HMAC", "OAUTH"}

ToSign_WithoutBody(timestamp, path, search, body) ==
    timestamp \o ":" \o path \o ":" \o search \o ":"

\* createHmacSignature, line 45: `${timestamp}:${path}:${search}:${body}`
ToSign(timestamp, path, search, body) ==
    timestamp \o ":" \o path \o ":" \o search \o ":" \o body

\* crypto.createHmac('sha256', secret).update(toSign).digest('hex'): the digest is
\* taken to be free of collisions, so it stands for the key and the message it is of
HmacSha256Hex(secret, toSign) == [key |-> secret, message |-> toSign]

\* createHmacSignature(secret, timestamp, path, search, body = '')
createHmacSignature(secret, timestamp, path, search, body) ==
    HmacSha256Hex(secret, ToSign(timestamp, path, search, body))

EligibilityError_BaseUrlFirst(tenant) ==
    IF tenant.apiBaseUrl = <<>>
    THEN "Tenant API base URL is not configured"
    ELSE IF tenant.apiStatus # "active"
    THEN "Tenant API is " \o (IF tenant.apiStatus = MISSING THEN "inactive"
                              ELSE tenant.apiStatus)
    ELSE IF tenant.authType # "HMAC" \/ tenant.apiKey = MISSING
    THEN "Only HMAC authentication is currently supported and API key is required"
    ELSE MISSING

\* fetchTenantUsers, lines 58-68: the error thrown before the try block, if any
EligibilityError(tenant) ==
    IF tenant.apiStatus # "active"
    THEN "Tenant API is " \o (IF tenant.apiStatus = MISSING THEN "inactive"
                              ELSE tenant.apiStatus)
    ELSE IF tenant.apiBaseUrl = <<>>
    THEN "Tenant API base URL is not configured"
    ELSE IF tenant.authType # "HMAC" \/ tenant.apiKey = MISSING
    THEN "Only HMAC authentication is currently supported and API key is required"
    ELSE MISSING

\* URLSearchParams serialised: the parameters in the order they were set, with '&'
\* between them
RECURSIVE JoinParams(_)
JoinParams(params) ==
    IF Len(params) = 1 THEN params[1] ELSE params[1] \o "&" \o JoinParams(Tail(params))

\* fetchTenantUsers, lines 71-77: url.pathname and url.search
UsersPathname == "/api/admin/users"
UsersSearch(options) ==
    LET params ==
            (IF options.limit # 0 THEN <<"limit=" \o ToString(options.limit)>> ELSE <<>>)
            \o (IF options.cursor # MISSING THEN <<"cursor=" \o options.cursor>> ELSE <<>>)
            \o (IF options.q # MISSING THEN <<"q=" \o options.q>> ELSE <<>>)
    IN  IF params = <<>> THEN "" ELSE "?" \o JoinParams(params)

\* fetchTenantUsers, lines 79-103: the request handed to fetch()
UsersRequest(tenant, options, t) ==
    [method |-> "GET",
     tenantId |-> tenant.id,
     base |-> tenant.apiBaseUrl,
     pathname |-> UsersPathname,
     search |-> UsersSearch(options),
     timestamp |-> ToString(t),
     signature |-> createHmacSignature(tenant.apiKey, ToString(t), UsersPathname,
                                       UsersSearch(options), "")]

\* what the tenant's API may answer: a page with the cursor of the next one, the
\* last page, and an answer that is not 2xx
NoData == [data |-> <<>>, nextCursor |-> MISSING]

TenantAnswers ==
    {[ok |-> TRUE, status |-> 200, statusText |-> "OK",
      json |-> [data |-> <<"u1">>, nextCursor |-> "cur-2"]],
     [ok |-> TRUE, status |-> 200, statusText |-> "OK",
      json |-> [data |-> <<"u2">>, nextCursor |-> MISSING]],
     [ok |-> FALSE, status |-> 503, statusText |-> "Service Unavailable", json |-> NoData]}

FetchTenantUsersResult_Retries(tenant, options, answer, t) ==
    IF EligibilityError(tenant) # MISSING
    THEN [error |-> EligibilityError(tenant), json |-> NoData, sent |-> <<>>]
    ELSE IF ~answer.ok
    THEN [error |-> "Tenant API error " \o ToString(answer.status) \o ": "
                       \o answer.statusText,
          json |-> NoData,
          sent |-> <<UsersRequest(tenant, options, t), UsersRequest(tenant, options, t)>>]
    ELSE [error |-> MISSING, json |-> answer.json,
          sent |-> <<UsersRequest(tenant, options, t)>>]

\* fetchTenantUsers as a whole: the error thrown or the data returned, and the
\* requests sent; answer is what fetch() resolves to
FetchTenantUsersResult(tenant, options, answer, t) ==
    IF EligibilityError(tenant) # MISSING
    THEN [error |-> EligibilityError(tenant), json |-> NoData, sent |-> <<>>]
    ELSE IF ~answer.ok
    THEN [error |-> "Tenant API error " \o ToString(answer.status) \o ": "
                       \o answer.statusText,
          json |-> NoData,
          sent |-> <<UsersRequest(tenant, options, t)>>]
    ELSE [error |-> MISSING, json |-> answer.json,
          sent |-> <<UsersRequest(tenant, options, t)>>]

\* getTenantFromDB: the columns the users page selects
TenantClient(id, row) ==
    [id |-> id, apiBaseUrl |-> row.apiBaseUrl, authType |-> row.authType,
     apiKey |-> row.apiKey, apiStatus |-> row.apiStatus]

\* fetchTenantUsers(tenant, options), called on the tenant a caller has read
fetchTenantUsers(tenant, options, answer) ==
    LET result == FetchTenantUsersResult(tenant, options, answer, now) IN
    /\ Len(fetches) + Len(result.sent) <= MaxFetches
    /\ fetches' = fetches \o result.sent
    /\ response' = Answer("fetchTenantUsers",
                          [tenant |-> tenant, options |-> options, answer |-> answer],
                          0, [error |-> result.error, json |-> result.json])
    /\ UNCHANGED <<saasClients, licenseVerificationLogs, now, requests>>

\* TenantUsersPage (saas-users/[tenantId]/page.tsx): the tenant is read, the page
\* checks its configuration and then calls fetchTenantUsers
TenantUsersPage(tenantId, options, answer) ==
    LET req == [tenantId |-> tenantId, options |-> options] IN
    /\ IF tenantId \notin Ids
       THEN /\ response' = Answer("TenantUsersPage", req, 404, [error |-> "notFound"])
            /\ UNCHANGED fetches
       ELSE LET tenant == TenantClient(tenantId, saasClients[tenantId]) IN
            IF tenant.apiStatus # "active" \/ tenant.apiBaseUrl = <<>>
                  \/ tenant.apiKey = MISSING
            THEN /\ response' = Answer("TenantUsersPage", req, 200,
                                       [error |-> "API Configuration Required"])
                 /\ UNCHANGED fetches
            ELSE LET result == FetchTenantUsersResult(tenant, options, answer, now) IN
                 /\ Len(fetches) + Len(result.sent) <= MaxFetches
                 /\ fetches' = fetches \o result.sent
                 /\ response' = Answer("TenantUsersPage", req, 200,
                                       [error |-> result.error, json |-> result.json])
    /\ UNCHANGED <<saasClients, licenseVerificationLogs, now, requests>>

\* generateApiKey(): crypto.randomBytes(32) as hex, 256 random bits, taken never
\* to return a key that a record of the store holds
GeneratedApiKeys(clients) ==
    {"api-1", "api-2", "api-3"} \ {clients[id].apiKey : id \in DOMAIN clients}

RegenerateApiKeyPatch_StatusOnly(newApiKey) == [apiStatus |-> "active"]

\* regenerate-api-key/route.ts lines 39-46: the update
RegenerateApiKeyPatch(newApiKey) == [apiKey |-> newApiKey, apiStatus |-> "active"]

\* POST /api/saas/clients/[id]/regenerate-api-key
RegenerateApiKey(id, newApiKey) ==
    LET req == [id |-> id] IN
    /\ IF id \notin Ids
       THEN /\ response' = Answer("regenerate-api-key", req, 404, [success |-> FALSE])
            /\ UNCHANGED saasClients
       ELSE /\ saasClients' = UpdateWhereId(saasClients, id, RegenerateApiKeyPatch(newApiKey))
            /\ response' = Answer("regenerate-api-key", req, 200,
                                  [success |-> TRUE, data |-> saasClients'[id],
                                   setupInstructions |->
                                       [apiKey |-> newApiKey,
                                        apiBaseUrl |-> saasClients[id].apiBaseUrl,
                                        authType |-> saasClients[id].authType]])
    /\ UNCHANGED <<licenseVerificationLogs, now, requests, fetches>>

(***************************************************************************)
(* FederationSpec: the tenants' API configuration, the users page and      *)
(* regenerate-api-key; the requests are served one after the other.        *)
(***************************************************************************)
FetchOptions ==
    {[limit |-> l, cursor |-> MISSING, q |-> q] : l \in {0, 1}, q \in {MISSING, "bob"}}

\* a client as created, whose API columns have any of the values they can hold
FederationStores ==
    {[id \in {"c1"} |->
          [StoredClient("a@x.io", "LIC-A", Str_a_io, s, "active", NoDate)
              EXCEPT !.apiStatus = as, !.apiBaseUrl = b, !.authType = at, !.apiKey = k]] :
        s \in {"active", "suspended"},
        as \in ApiStatuses \cup {MISSING},
        b \in {<<>>, ApiBaseUrl(Str_https_a_io_slash)},
        at \in AuthTypes,
        k \in {MISSING, "api-1"}}

FederationInit ==
    /\ saasClients \in FederationStores
    /\ licenseVerificationLogs = <<>>
    /\ now = 1
    /\ response = Answer("none", <<>>, 0, <<>>)
    /\ requests = <<>>
    /\ fetches = <<>>

FederationNext ==
    \/ \E id \in ClientIds, k \in GeneratedApiKeys(saasClients) : RegenerateApiKey(id, k)
    \/ \E id \in ClientIds, o \in FetchOptions, answer \in TenantAnswers :
          TenantUsersPage(id, o, answer)
    \/ \E id \in Ids, o \in FetchOptions, answer \in TenantAnswers :
          fetchTenantUsers(TenantClient(id, saasClients[id]), o, answer)
    \/ Tick

FederationSpec == FederationInit /\ [][FederationNext]_vars

Sent == SubSeq(fetches', Len(fetches) + 1, Len(fetches'))

ApiEligible(tenant) ==
    /\ tenant.apiStatus = "active"
    /\ tenant.apiBaseUrl # <<>>
    /\ tenant.authType = "HMAC"
    /\ tenant.apiKey # MISSING

\* C14: fetchTenantUsers on a tenant that is not API-eligible sends no network
\* request and fails with an error; the error is that of the first failing check
\* in the order API status, base URL, auth (auth type and API key share one
\* message), the three messages differ, and for apiStatus=paused the message is
\* 'Tenant API is paused'; a request is sent only if the tenant is eligible.
C14_FetchFailsFast ==
    [][response'.op = "fetchTenantUsers" =>
          LET tenant == response'.req.tenant
              error == response'.body.error
              statusError == "Tenant API is " \o (IF tenant.apiStatus = MISSING
                                                  THEN "inactive" ELSE tenant.apiStatus)
              baseUrlError == "Tenant API base URL is not configured"
              authError ==
                  "Only HMAC authentication is currently supported and API key is required"
          IN  /\ ~ApiEligible(tenant) => fetches' = fetches /\ error # MISSING
              /\ fetches' # fetches => ApiEligible(tenant)
              /\ tenant.apiStatus # "active" => error = statusError
              /\ tenant.apiStatus = "paused" => error = "Tenant API is paused"
              /\ (tenant.apiStatus = "active" /\ tenant.apiBaseUrl = <<>>) =>
                    error = baseUrlError
              /\ (tenant.apiStatus = "active" /\ tenant.apiBaseUrl # <<>>
                     /\ (tenant.authType # "HMAC" \/ tenant.apiKey = MISSING)) =>
                    error = authError
              /\ statusError # baseUrlError /\ statusError # authError
              /\ baseUrlError # authError
      ]_vars

\* fetchTenantUsers has failed on a paused tenant that also lacks a base URL and a
\* key, with the message of the API status, and nothing was ever sent
C14_Witness ==
    /\ response.op = "fetchTenantUsers"
    /\ response.req.tenant.apiStatus = "paused"
    /\ response.req.tenant.apiBaseUrl = <<>>
    /\ response.req.tenant.apiKey = MISSING
    /\ response.body.error = "Tenant API is paused"
    /\ fetches = <<>>

(***************************************************************************)
(* The second create handler of the repository (part_001): the POST of     *)
(* part_000 without the API federation fields.                             *)
(***************************************************************************)
\* the federation columns of a row whose insert names none of them: no default is
\* given for them, they are unset
ColumnDefaults ==
    [apiBaseUrl |-> <<>>, authType |-> MISSING, apiKey |-> MISSING, apiStatus |-> MISSING]

\* part_001 lines 147-167: the row of a new client
NewClientWithoutApi(body, licenseKey, t) ==
    LET subscriptionType == IF body.subscriptionType = MISSING THEN "monthly"
                            ELSE body.subscriptionType
    IN  [contactEmail |-> body.contactEmail,
         websiteDomain |-> body.websiteDomain,
         licenseKey |-> licenseKey,
         status |-> "active",
         subscriptionType |-> subscriptionType,
         subscriptionStatus |-> "active",
         subscriptionEndDate |->
             CalculatedEndDate(subscriptionType, body.subscriptionEndDate, t),
         lastAccessDate |-> NoDate,
         lastVerificationDate |-> NoDate,
         notes |-> body.notes,
         apiBaseUrl |-> ColumnDefaults.apiBaseUrl,
         authType |-> ColumnDefaults.authType,
         apiKey |-> ColumnDefaults.apiKey,
         apiStatus |-> ColumnDefaults.apiStatus]

\* POST of part_001 (lines 64-184), run without interleaving
CreateClientWithoutApi(ids, body, draws) ==
    LET loop == UniqueKeyLoop(saasClients, draws, 0) IN
    /\ IF body.contactEmail = MISSING \/ body.websiteUrl = <<>> \/ body.websiteDomain = <<>>
       THEN /\ response' = Answer("create", body, 400, [success |-> FALSE])
            /\ UNCHANGED saasClients
       ELSE IF ByEmail(saasClients, body.contactEmail) # {}
       THEN /\ response' = Answer("create", body, 409, [success |-> FALSE])
            /\ UNCHANGED saasClients
       ELSE IF ~loop.isUnique
       THEN /\ response' = Answer("create", body, 500,
                                  [success |-> FALSE,
                                   error |-> "Failed to generate unique license key"])
            /\ UNCHANGED saasClients
       ELSE \E id \in ids \ Ids :
              LET newClient == NewClientWithoutApi(body, loop.licenseKey, now) IN
              /\ saasClients' = InsertClient(saasClients, id, newClient)
              /\ response' = Answer("create", body, 201,
                                    [success |-> TRUE, id |-> id, data |-> newClient])
    /\ UNCHANGED <<licenseVerificationLogs, now, requests, fetches>>

(***************************************************************************)
(* CreationSpec: clients are created through either create handler.        *)
(***************************************************************************)
\* request bodies; licenseKey and apiKey are fields a caller may add
CreationBodies ==
    {[contactEmail |-> e, websiteUrl |-> Str_https_a_io_slash, websiteDomain |-> Str_a_io,
      subscriptionType |-> t, subscriptionEndDate |-> d, notes |-> <<>>,
      licenseKey |-> "LIC-CALLER", apiKey |-> "api-caller"] :
        e \in Emails \cup {MISSING}, t \in SubscriptionTypes \cup {MISSING},
        d \in {NoDate, MaxTime}}

CreationInit ==
    /\ saasClients = <<>>
    /\ licenseVerificationLogs = <<>>
    /\ now = 1
    /\ response = Answer("none", <<>>, 0, <<>>)
    /\ requests = <<>>
    /\ fetches = <<>>

CreationNext ==
    \/ \E body \in CreationBodies, draws \in LifecycleDraws,
          k \in GeneratedApiKeys(saasClients) : CreateClient(ClientIds, body, draws, k)
    \/ \E body \in CreationBodies, draws \in LifecycleDraws :
          CreateClientWithoutApi(ClientIds, body, draws)

CreationSpec == CreationInit /\ [][CreationNext]_vars

\* C15: every record inserted by a create request starts with status=active and
\* subscriptionStatus=active, carries a generated licenseKey and a generated apiKey,
\* neither of them a value of the request body, and is API-eligible at creation
\* (apiStatus=active, authType=HMAC, apiBaseUrl set, apiKey set).
C15_CreatedRecordIsEligible ==
    [][(response'.op = "create" /\ response'.status = 201) =>
          LET id == response'.body.id
              row == saasClients'[id]
          IN  /\ id \notin Ids
              /\ row.status = "active"
              /\ row.subscriptionStatus = "active"
              /\ row.licenseKey \in LicenseKeys
              /\ row.licenseKey # response'.req.licenseKey
              /\ row.apiKey # MISSING
              /\ row.apiKey # response'.req.apiKey
              /\ ApiEligible(TenantClient(id, row))
      ]_vars

(***************************************************************************)
(* DomainSpec: one client in order verifies from the spellings of its      *)
(* domain and from another domain.                                         *)
(***************************************************************************)
DomainSpellings ==
    {Str_a_io, Str_A_IO, Str_https_a_io_slash, Str_HTTPS_A_IO_slash, Str_b_io, Str_http_b_io,
     Str_httpd_io}

DomainStores ==
    {[id \in {"c1"} |-> StoredClient("a@x.io", "LIC-A", w, "active", ss, NoDate)] :
        w \in DomainSpellings, ss \in {"active", "cancelled"}}

DomainInit ==
    /\ saasClients \in DomainStores
    /\ licenseVerificationLogs = <<>>
    /\ now = 1
    /\ response = Answer("none", <<>>, 0, <<>>)
    /\ requests = <<>>
    /\ fetches = <<>>

DomainNext == \E d \in DomainSpellings : VerifyPOST("LIC-A", d)

DomainSpec == DomainInit /\ [][DomainNext]_vars

\* a spelling without its scheme (http:// or https://, in any letter case), without
\* its trailing slash and in lower case
WithoutScheme(s) ==
    IF startsWith(toLowerCase(s), Str_https_prefix) THEN SubSeq(s, 9, Len(s))
    ELSE IF startsWith(toLowerCase(s), Str_http \o <<":", "/", "/">>) THEN SubSeq(s, 8, Len(s))
    ELSE s
WithoutSlash(s) == IF s # <<>> /\ s[Len(s)] = "/" THEN SubSeq(s, 1, Len(s) - 1) ELSE s
Canonical(s) == toLowerCase(WithoutSlash(WithoutScheme(s)))

\* two spellings that differ only by scheme, trailing slash or letter case
SameButSpelling(a, b) == Canonical(a) = Canonical(b)

\* C16: extractDomain maps two inputs that differ only by scheme, trailing slash or
\* letter case to the same canonical hostname, and a full verification whose domain
\* differs from the stored websiteDomain only in those ways passes the domain
\* binding.
C16_SpellingsVerify ==
    [][(response'.op = "POST" /\ SameButSpelling(response'.req.domain,
                                                  saasClients["c1"].websiteDomain)) =>
          /\ extractDomain(response'.req.domain) = Canonical(response'.req.domain)
          /\ extractDomain(response'.req.domain)
                = extractDomain(saasClients["c1"].websiteDomain)
          /\ response'.body.valid
                \/ response'.body.error # "Domain not authorized for this license"
      ]_vars

(***************************************************************************)
(* HmacSpec: createHmacSignature is called on one input after another.     *)
(***************************************************************************)
HmacSecrets == {"api-1", "api-2", "api-1:1"}
HmacTimestamps == {"1", "2", "1:"}
HmacPaths == {"/api/admin/users", "/api/admin", ""}
HmacSearches == {"", "?limit=1", ":"}
HmacBodies == {"", "{}", ":"}

\* a call of createHmacSignature and the signature it returns
Sign(secret, timestamp, path, search, body) ==
    /\ response' = Answer("createHmacSignature",
                          [secret |-> secret, timestamp |-> timestamp, path |-> path,
                           search |-> search, body |-> body],
                          0,
                          [signature |->
                               createHmacSignature(secret, timestamp, path, search, body)])
    /\ UNCHANGED <<saasClients, licenseVerificationLogs, now, requests, fetches>>

HmacInit ==
    /\ saasClients = <<>>
    /\ licenseVerificationLogs = <<>>
    /\ now = 1
    /\ response = Answer("none", <<>>, 0, <<>>)
    /\ requests = <<>>
    /\ fetches = <<>>

HmacNext ==
    \E secret \in HmacSecrets, timestamp \in HmacTimestamps, path \in HmacPaths,
       search \in HmacSearches, body \in HmacBodies :
          Sign(secret, timestamp, path, search, body)

HmacSpec == HmacInit /\ [][HmacNext]_vars

HmacInputs == {"secret", "timestamp", "path", "search", "body"}
Signed(r) == r.op = "createHmacSignature"

\* the inputs in which two calls differ
Changed(r1, r2) == {f \in HmacInputs : r1.req[f] # r2.req[f]}

\* C17 as stated: the signature is a function of the five inputs, and two calls that
\* differ in exactly one of the five inputs sign different messages and return
\* different signatures.
C17_AnyInputChangesMessage ==
    [][(Signed(response) /\ Signed(response')) =>
          /\ Changed(response, response') = {} =>
                response'.body.signature = response.body.signature
          /\ Cardinality(Changed(response, response')) = 1 =>
                /\ response'.body.signature.message # response.body.signature.message
                /\ response'.body.signature # response.body.signature
      ]_vars

\* C17: the signature is a function of the five inputs, over the message
\* '{timestamp}:{path}:{query}:{body}'; two calls that differ in exactly one of
\* timestamp, path, query and body sign different messages and return different
\* signatures; two calls that differ in the secret alone sign the same message,
\* with different keys, and return different signatures.
C17_SignatureOfFiveInputs ==
    [][(Signed(response) /\ Signed(response')) =>
          /\ response'.body.signature.message =
                response'.req.timestamp \o ":" \o response'.req.path \o ":"
                   \o response'.req.search \o ":" \o response'.req.body
          /\ Changed(response, response') = {} =>
                response'.body.signature = response.body.signature
          /\ (Cardinality(Changed(response, response')) = 1
                 /\ Changed(response, response') # {"secret"}) =>
                /\ response'.body.signature.message # response.body.signature.message
                /\ response'.body.signature # response.body.signature
          /\ Changed(response, response') = {"secret"} =>
                /\ response'.body.signature.message = response.body.signature.message
                /\ response'.body.signature # response.body.signature
      ]_vars

\* the request of the users page has been signed with the second key
C17_Witness ==
    /\ Signed(response)
    /\ response.req.secret = "api-2"
    /\ response.body.signature.key = "api-2"
    /\ response.body.signature.message = "1:/api/admin/users:?limit=1:"

(***************************************************************************)
(* ExpirySpec: full verifications in flight while the administrator        *)
(* toggles and edits the client.  The POST handler awaits its select, and  *)
(* after it its update and its insert: the select is a step of its own.    *)
(***************************************************************************)
\* POST, lines 38-59 and the checks on the row read: the outcome is decided on
\* the row as the select returned it
PostLookup(s, licenseKey, domain) ==
    LET req == [licenseKey |-> licenseKey, domain |-> domain] IN
    /\ requests[s] = Idle
    /\ IF MissingFields(licenseKey, domain)
       THEN /\ response' = Answer("POST", req, BadRequest.status, BadRequest.body)
            /\ UNCHANGED requests
       ELSE \E o \in PostOutcomes(saasClients, licenseKey, extractDomain(domain), now) :
               /\ requests' = [requests EXCEPT ![s] =
                                  [pc |-> "verify", req |-> req, outcome |-> o]]
               /\ response' = Awaiting
    /\ UNCHANGED <<saasClients, licenseVerificationLogs, now, fetches>>

\* POST, after the select: the update of the outcome, if any, the log entry and
\* the response
PostFinish(s) ==
    LET o == requests[s].outcome IN
    /\ requests[s].pc = "verify"
    /\ Len(licenseVerificationLogs) < MaxLogs
    /\ saasClients' = IF o.patch = NoPatch THEN saasClients
                      ELSE UpdateWhereId(saasClients, o.clientId, o.patch)
    /\ licenseVerificationLogs' = licenseVerificationLogs \o o.log
    /\ response' = Answer("POST", requests[s].req, o.status, o.body)
    /\ requests' = [requests EXCEPT ![s] = Idle]
    /\ UNCHANGED <<now, fetches>>

ExpiryInit ==
    /\ saasClients = [id \in {"c1"} |->
                         StoredClient("a@x.io", "LIC-A", Str_a_io, "active", "active", 1)]
    /\ licenseVerificationLogs = <<>>
    /\ now = 1
    /\ response = Answer("none", <<>>, 0, <<>>)
    /\ requests = [s \in Slots |-> Idle]
    /\ fetches = <<>>

ExpiryNext ==
    \/ \E s \in Slots, d \in {<<>>, Str_a_io} : PostLookup(s, "LIC-A", d)
    \/ \E s \in Slots : PostFinish(s)
    \/ \E a \in ToggleActions : ToggleStatus("c1", a, MISSING)
    \/ \E body \in SuspensionUpdates : UpdateClient("c1", body)
    \/ Tick

ExpirySpec == ExpiryInit /\ [][ExpiryNext]_vars

\* C18: a full verification never changes a client's status, licenseKey,
\* websiteDomain or API fields, and changes subscriptionStatus only from active to
\* expired, for a client whose stored subscriptionEndDate has elapsed; every other
\* change of status or subscriptionStatus is made by toggle-status or update.
C18_VerificationFrame ==
    [][\A id \in Ids :
          LET prior == saasClients[id]
              after == saasClients'[id]
          IN  /\ response'.op = "POST" =>
                    /\ \A f \in {"status", "licenseKey", "websiteDomain"} \cup ApiFields :
                          after[f] = prior[f]
                    /\ after.subscriptionStatus # prior.subscriptionStatus =>
                          /\ prior.subscriptionStatus = "active"
                          /\ after.subscriptionStatus = "expired"
                          /\ IsExpired(prior.subscriptionEndDate, now)
              /\ (response'.op # "POST"
                     /\ (after.status # prior.status
                            \/ after.subscriptionStatus # prior.subscriptionStatus)) =>
                    response'.op \in {"toggle", "update"}
      ]_vars

(***************************************************************************)
(* The log entry of a full verification, under Spec                        *)
(***************************************************************************)
\* the values the handler writes to verificationStatus
VerificationStatuses == {"valid", "invalid", "expired", "suspended"}

\* C19: the log entry a full verification writes has a verificationStatus among
\* valid, invalid, expired and suspended and goes with the step that ended the
\* request and its HTTP code: invalid with clientId 'unknown' for an unmatched key
\* (401), suspended for every rejection by the account gate, whatever the
\* non-active status (403), invalid for a domain mismatch (403), expired for a
\* rejection by the subscription gate or the expiry check (402), valid for
\* success (200).
C19_LogEntryMatchesOutcome ==
    [][(/\ response'.op = "POST"
        /\ ~MissingFields(response'.req.licenseKey, response'.req.domain))
       => LET found == ByLicenseKey(saasClients, response'.req.licenseKey)
              got == extractDomain(response'.req.domain)
              code == response'.status
              entry == licenseVerificationLogs'[Len(licenseVerificationLogs')]
              Logged(clientId, verificationStatus) ==
                  /\ entry.clientId = clientId
                  /\ entry.verificationStatus = verificationStatus
          IN  /\ Len(licenseVerificationLogs') = Len(licenseVerificationLogs) + 1
              /\ entry.verificationStatus \in VerificationStatuses
              /\ entry.licenseKey = response'.req.licenseKey
              /\ entry.requestDomain = got
              /\ IF found = {}
                 THEN code = 401 /\ Logged("unknown", "invalid")
                 ELSE \E id \in found :
                      LET c == saasClients[id] IN
                      IF c.status # "active"
                      THEN code = 403 /\ Logged(id, "suspended")
                      ELSE IF got # extractDomain(c.websiteDomain)
                      THEN code = 403 /\ Logged(id, "invalid")
                      ELSE IF c.subscriptionStatus # "active"
                              \/ IsExpired(c.subscriptionEndDate, now)
                      THEN code = 402 /\ Logged(id, "expired")
                      ELSE code = 200 /\ Logged(id, "valid")]_vars

\* a cancelled client was rejected by the account gate and logged as suspended
C19_Witness ==
    /\ "c1" \in DOMAIN saasClients
    /\ saasClients["c1"].status = "cancelled"
    /\ response.op = "POST"
    /\ response.status = 403
    /\ response.body.error = "License is cancelled"
    /\ Len(licenseVerificationLogs) > 0
    /\ LastLog.clientId = "c1"
    /\ LastLog.verificationStatus = "suspended"
    /\ LastLog.errorMessage = "Client status: cancelled"

(***************************************************************************)
(* FaultSpec: full verifications in which a store operation throws         *)
(***************************************************************************)
\* POST, lines 213-220: the catch block
InternalError ==
    [status |-> 500,
     body |-> [valid |-> FALSE,
               error |-> "Internal server error during license verification"]]

StoreOperations_LogFirst(o) ==
    <<"select", "insert">> \o (IF o.patch = NoPatch THEN <<>> ELSE <<"update">>)

\* the awaited store operations of a POST with outcome o, in the order of the code:
\* the select of line 55, the update of lines 153 or 181 and the insert of the log
\* entry
StoreOperations(o) ==
    <<"select">> \o (IF o.patch = NoPatch THEN <<>> ELSE <<"update">>) \o <<"insert">>

\* the operations that have run when the n-th throws
Performed(o, n, operation) == \E i \in 1..(n - 1) : StoreOperations(o)[i] = operation

\* the store as a faulting operation leaves it: a statement that throws has written
\* nothing
Faulted(store) == store

\* export async function POST, in which the n-th store operation throws
VerifyPOSTFaulted(licenseKey, domain, n) ==
    LET req == [licenseKey |-> licenseKey, domain |-> domain, fault |-> n] IN
    /\ ~MissingFields(licenseKey, domain)
    /\ Len(licenseVerificationLogs) < MaxLogs
    /\ \E o \in PostOutcomes(saasClients, licenseKey, extractDomain(domain), now) :
          /\ n \in 1..Len(StoreOperations(o))
          /\ saasClients' = IF Performed(o, n, "update")
                            THEN UpdateWhereId(saasClients, o.clientId, o.patch)
                            ELSE Faulted(saasClients)
          /\ licenseVerificationLogs' = IF Performed(o, n, "insert")
                                        THEN licenseVerificationLogs \o o.log
                                        ELSE Faulted(licenseVerificationLogs)
    /\ response' = Answer("POST", req, InternalError.status, InternalError.body)
    /\ UNCHANGED <<now, requests, fetches>>

MaxOperations == 3

FaultStores ==
    {[id \in {"c1"} |-> StoredClient("a@x.io", "LIC-A", Str_a_io, s, ss, e)] :
        s \in {"active", "suspended"}, ss \in {"active", "cancelled"}, e \in 0..MaxTime}

FaultInit ==
    /\ saasClients \in FaultStores
    /\ licenseVerificationLogs = <<>>
    /\ now = 1
    /\ response = Answer("none", <<>>, 0, <<>>)
    /\ requests = <<>>
    /\ fetches = <<>>

FaultNext ==
    \/ \E k \in {"LIC-A", "LIC-B"}, d \in {Str_A_IO, Str_b_io} : VerifyPOST(k, d)
    \/ \E k \in {"LIC-A", "LIC-B"}, d \in {Str_A_IO, Str_b_io}, n \in 1..MaxOperations :
          VerifyPOSTFaulted(k, d, n)
    \/ Tick

FaultSpec == FaultInit /\ [][FaultNext]_vars

\* the step is a full verification in which a store operation threw
FaultedVerification == response'.op = "POST" /\ "fault" \in DOMAIN response'.req

KeyLoopBodies ==
    {[contactEmail |-> e, websiteUrl |-> Str_https_a_io_slash, websiteDomain |-> Str_a_io,
      subscriptionType |-> "monthly", subscriptionEndDate |-> NoDate, notes |-> <<>>] :
        e \in Emails}

KeyLoopStores ==
    {<<>>, [id \in {"c1"} |-> StoredClient("a@x.io", "LIC-A", Str_a_io, "active", "active", NoDate)]}

KeyLoopInit ==
    /\ saasClients \in KeyLoopStores
    /\ licenseVerificationLogs = <<>>
    /\ now = 1
    /\ response = Answer("none", <<>>, 0, <<>>)
    /\ requests = <<>>
    /\ fetches = <<>>

KeyLoopNext ==
    \/ \E body \in KeyLoopBodies, draws \in DrawSequences :
          CreateClient(ClientIds, body, draws, "api-1")
    \/ \E id \in ClientIds, draws \in DrawSequences : RegenerateLicense(id, draws)

KeyLoopSpec == KeyLoopInit /\ [][KeyLoopNext]_vars

\* the passes of the loop in which the candidate is not in the store
FreeDraws(draws) == {i \in 1..maxAttempts : ByLicenseKey(saasClients, draws[i]) = {}}

FirstFree(draws) == CHOOSE i \in FreeDraws(draws) : \A j \in FreeDraws(draws) : i <= j

\* the step is a create that has reached its key loop
CreateReachesLoop(body) ==
    /\ response'.op = "create"
    /\ response'.req = body
    /\ response'.status \notin {400, 409}

\* the step is a regenerate-license of a client that exists
RegenerateReachesLoop(id) ==
    /\ response'.op = "regenerate-license"
    /\ response'.req.id = id
    /\ response'.status # 404

KeyGenerationExhausted ==
    /\ response'.status = 500
    /\ response'.body.error = "Failed to generate unique license key"
    /\ saasClients' = saasClients

\* C21: the key loop of create and of regenerate-license makes at most 10
\* attempts; it stops at the first candidate that is not in the store, and that
\* candidate becomes the license key; when all 10 candidates are in the store the
\* request is answered 500 'Failed to generate unique license key' and no client
\* is created or changed.
C21_KeyLoopIsBounded ==
    [][\A draws \in DrawSequences :
          LET loop == UniqueKeyLoop(saasClients, draws, 0) IN
          /\ loop.attempts \in 1..maxAttempts
          /\ loop.attempts = IF FreeDraws(draws) = {} THEN maxAttempts ELSE FirstFree(draws)
          /\ \A body \in KeyLoopBodies :
                (CreateClient(ClientIds, body, draws, "api-1") /\ CreateReachesLoop(body)) =>
                   IF FreeDraws(draws) = {} THEN KeyGenerationExhausted
                   ELSE /\ response'.status = 201
                        /\ \E id \in DOMAIN saasClients' \ Ids :
                              saasClients'[id].licenseKey = draws[FirstFree(draws)]
                        /\ \A id \in Ids : saasClients'[id] = saasClients[id]
          /\ \A id \in ClientIds :
                (RegenerateLicense(id, draws) /\ RegenerateReachesLoop(id)) =>
                   IF FreeDraws(draws) = {} THEN KeyGenerationExhausted
                   ELSE /\ response'.status = 200
                        /\ saasClients'[id].licenseKey = draws[FirstFree(draws)]
                        /\ \A other \in Ids \ {id} : saasClients'[other] = saasClients[other]
      ]_vars

\* ten candidates were in the store and the regenerate-license gave up
C21_Witness ==
    /\ response.op = "regenerate-license"
    /\ response.status = 500
    /\ response.body.error = "Failed to generate unique license key"
    /\ Cardinality(DOMAIN saasClients) = 2

(***************************************************************************)
(* NotesSpec: toggle-status and regenerate-license on a client whose notes *)
(* hold the text a create or an update has stored                          *)
(***************************************************************************)
Str_vip == <<"v", "i", "p">>

NotesTexts == {<<>>, <<FreeText(Str_vip)>>, <<FreeText(<<" ">> \o Str_vip)>>, <<FreeText(<<" ">>)>>}

NotesStores ==
    {[id \in {"c1"} |->
         [StoredClient("a@x.io", "LIC-A", Str_a_io, "active", "active", NoDate)
             EXCEPT !.notes = text]] : text \in NotesTexts}

NotesInit ==
    /\ saasClients \in NotesStores
    /\ licenseVerificationLogs = <<>>
    /\ now = 1
    /\ response = Answer("none", <<>>, 0, <<>>)
    /\ requests = <<>>
    /\ fetches = <<>>

NotesNext ==
    \/ \E a \in ToggleActions, r \in LifecycleReasons : ToggleStatus("c1", a, r)
    \/ \E draws \in LifecycleDraws : RegenerateLicense("c1", draws)
    \/ Tick

NotesSpec == NotesInit /\ [][NotesNext]_vars

\* the step is a toggle-status or a regenerate-license that has updated client id
NotesStep(id) ==
    /\ response'.op \in {"toggle", "regenerate-license"}
    /\ response'.status = 200
    /\ response'.req.id = id

\* the text of the line the step appends, if it appends one
AuditText(id) ==
    IF response'.op = "regenerate-license"
    THEN "License key regenerated. Old key: " \o saasClients[id].licenseKey
    ELSE IF response'.req.reason # MISSING
    THEN ActionUpper[response'.req.action] \o ": " \o response'.req.reason
    ELSE MISSING

\* notes without the white space it starts with
RECURSIVE Trimmed(_)
Trimmed(notes) ==
    IF notes = <<>> \/ ~IsFreeText(Head(notes)) THEN notes
    ELSE IF \A i \in 1..Len(Head(notes).free) : Head(notes).free[i] \in WhiteSpace
    THEN Trimmed(Tail(notes))
    ELSE LET text == Head(notes).free
             first == CHOOSE i \in 1..Len(text) :
                         text[i] \notin WhiteSpace /\ \A j \in 1..(i - 1) : text[j] \in WhiteSpace
         IN  <<FreeText(SubSeq(text, first, Len(text)))>> \o Tail(notes)

PagingOptions == {[limit |-> l, cursor |-> c, q |-> MISSING] : l \in {0, 1}, c \in {MISSING, "cur-2"}}

PagingInit ==
    /\ saasClients = [id \in {"c1"} |->
                         StoredClient("a@x.io", "LIC-A", Str_a_io, "active", "active", NoDate)]
    /\ licenseVerificationLogs = <<>>
    /\ now = 1
    /\ response = Answer("none", <<>>, 0, <<>>)
    /\ requests = <<>>
    /\ fetches = <<>>

PagingNext ==
    \/ \E o \in PagingOptions, answer \in TenantAnswers :
          fetchTenantUsers(TenantClient("c1", saasClients["c1"]), o, answer)
    \/ \E o \in PagingOptions, answer \in TenantAnswers : TenantUsersPage("c1", o, answer)
    \/ Tick

PagingSpec == PagingInit /\ [][PagingNext]_vars

SubscriptionBodies ==
    {[contactEmail |-> "a@x.io", websiteUrl |-> Str_https_a_io_slash,
      websiteDomain |-> Str_a_io, subscriptionType |-> t, subscriptionEndDate |-> d,
      notes |-> <<>>] : t \in {MISSING, "monthly", "lifetime"}, d \in {NoDate, MaxTime}}

\* the bodies of PUT: the subscription type, the end date (null among them) or both
SubscriptionUpdates ==
    {[subscriptionType |-> t] : t \in SubscriptionTypes}
    \cup {[subscriptionEndDate |-> d] : d \in {NoDate, MaxTime}}
    \cup {[subscriptionType |-> "lifetime", subscriptionEndDate |-> NoDate]}

SubscriptionInit ==
    /\ saasClients = <<>>
    /\ licenseVerificationLogs = <<>>
    /\ now = 1
    /\ response = Answer("none", <<>>, 0, <<>>)
    /\ requests = <<>>
    /\ fetches = <<>>

SubscriptionNext ==
    \/ \E body \in SubscriptionBodies, draws \in LifecycleDraws :
          CreateClient(ClientIds, body, draws, "api-1")
    \/ \E id \in ClientIds, body \in SubscriptionUpdates : UpdateClient(id, body)

SubscriptionSpec == SubscriptionInit /\ [][SubscriptionNext]_vars

\* C24: in every state that create and PUT can bring the store to, a client whose
\* subscriptionEndDate is null has subscriptionType lifetime.
C24_NullEndDateIsLifetime ==
    \A id \in Ids :
       saasClients[id].subscriptionEndDate = NoDate =>
          saasClients[id].subscriptionType = "lifetime"

(***************************************************************************)
(* check-by-domain/route.ts                                                *)
(***************************************************************************)
\* db.select(...).from(saasClients).where(eq(saasClients.websiteDomain, d))
ByDomain(clients, d) == {id \in DOMAIN clients : clients[id].websiteDomain = d}

CheckOutcomes_AccountOnly(clients, requestDomain, t) ==
    IF ByDomain(clients, requestDomain) = {}
    THEN {[status |-> 404,
           body |-> [valid |-> FALSE, error |-> "No license found for this domain"]]}
    ELSE {LET clientData == clients[id] IN
          IF clientData.status # "active" THEN
              [status |-> 403,
               body |-> [valid |-> FALSE, error |-> "License is " \o clientData.status]]
          ELSE
              [status |-> 200,
               body |-> [valid |-> TRUE, licenseKey |-> clientData.licenseKey,
                         client |-> [id |-> id,
                                     subscriptionStatus |-> clientData.subscriptionStatus,
                                     subscriptionEndDate |-> clientData.subscriptionEndDate]]]
          : id \in ByDomain(clients, requestDomain)}

\* POST, lines 60-111: the checks on the rows found for the domain
CheckOutcomes(clients, requestDomain, t) ==
    IF ByDomain(clients, requestDomain) = {}
    THEN {[status |-> 404,
           body |-> [valid |-> FALSE, error |-> "No license found for this domain"]]}
    ELSE {LET clientData == clients[id] IN
          IF clientData.status # "active" THEN
              [status |-> 403,
               body |-> [valid |-> FALSE, error |-> "License is " \o clientData.status]]
          ELSE IF clientData.subscriptionStatus # "active" THEN
              [status |-> 402,
               body |-> [valid |-> FALSE,
                         error |-> "Subscription is " \o clientData.subscriptionStatus]]
          ELSE IF clientData.subscriptionEndDate # NoDate
                  /\ t > clientData.subscriptionEndDate THEN
              [status |-> 402,
               body |-> [valid |-> FALSE, error |-> "Subscription has expired"]]
          ELSE
              [status |-> 200,
               body |-> [valid |-> TRUE, licenseKey |-> clientData.licenseKey,
                         client |-> [id |-> id,
                                     subscriptionStatus |-> clientData.subscriptionStatus,
                                     subscriptionEndDate |-> clientData.subscriptionEndDate]]]
          : id \in ByDomain(clients, requestDomain)}

\* export async function POST of check-by-domain
CheckByDomain(domain) ==
    LET req == [domain |-> domain] IN
    /\ IF domain = <<>>
       THEN response' = Answer("check-by-domain", req, 400,
                               [valid |-> FALSE, error |-> "Domain is required"])
       ELSE \E o \in CheckOutcomes(saasClients, extractDomain(domain), now) :
               response' = Answer("check-by-domain", req, o.status, o.body)
    /\ UNCHANGED <<saasClients, licenseVerificationLogs, now, requests, fetches>>

(***************************************************************************)
(* LookupSpec: clients whose websiteDomain is stored as the create request *)
(* gave it, looked up by domain and verified by license key                *)
(***************************************************************************)
LookupDomains == {<<>>, Str_a_io, Str_A_IO, Str_b_io}

LookupStores ==
    {[id \in {"c1"} |-> StoredClient("a@x.io", "LIC-A", w, s, ss, e)] :
        w \in {Str_a_io, Str_https_a_io_slash}, s \in {"active", "suspended"},
        ss \in {"active", "expired"}, e \in 0..MaxTime}

LookupInit ==
    /\ saasClients \in LookupStores
    /\ licenseVerificationLogs = <<>>
    /\ now = 1
    /\ response = Answer("none", <<>>, 0, <<>>)
    /\ requests = <<>>
    /\ fetches = <<>>

LookupNext ==
    \/ \E d \in LookupDomains : CheckByDomain(d)
    \/ \E d \in LookupDomains : VerifyPOST("LIC-A", d)
    \/ Tick

LookupSpec == LookupInit /\ [][LookupNext]_vars

\* C25: check-by-domain finds a client for a requested domain exactly when the
\* domain binding of the verification accepts that domain for a stored client,
\* that is when extractDomain of the requested domain is extractDomain of the
\* stored websiteDomain, in whatever form the websiteDomain is stored.
C25_LookupIsDomainBinding ==
    [][(response'.op = "check-by-domain" /\ response'.req.domain # <<>>) =>
          (response'.status # 404
              <=> \E id \in Ids :
                     extractDomain(response'.req.domain)
                        = extractDomain(saasClients[id].websiteDomain))]_vars

(***************************************************************************)
(* ElapsedSpec: full verifications of one client, in flight together, after *)
(* its subscriptionEndDate has passed; nothing else is served              *)
(***************************************************************************)
ElapsedDomains == {Str_a_io, Str_A_IO, Str_https_a_io_slash}

ElapsedInit ==
    /\ saasClients \in
          {[id \in {"c1"} |-> StoredClient("a@x.io", "LIC-A", w, "active", "active", 1)] :
              w \in {Str_a_io, Str_https_a_io_slash}}
    /\ licenseVerificationLogs = <<>>
    /\ now = 2
    /\ response = Answer("none", <<>>, 0, <<>>)
    /\ requests = [s \in Slots |-> Idle]
    /\ fetches = <<>>

ElapsedNext ==
    \/ \E s \in Slots, d \in ElapsedDomains : PostLookup(s, "LIC-A", d)
    \/ \E s \in Slots : PostFinish(s)

ElapsedSpec == ElapsedInit /\ [][ElapsedNext]_vars

\* C26: however full verifications of a client whose subscriptionEndDate has passed
\* interleave, each of them is answered valid:false and none valid:true, and once
\* one of them has ended the stored subscriptionStatus is expired and stays so:
\* writing expired twice does no harm.
C26_ElapsedNeverValid ==
    /\ response.op = "POST" => response.body.valid = FALSE /\ response.status = 402
    /\ \A s \in Slots :
          requests[s].pc = "verify" =>
             requests[s].outcome.body.valid = FALSE /\ requests[s].outcome.status = 402
    /\ licenseVerificationLogs # <<>> => saasClients["c1"].subscriptionStatus = "expired"

\* two verifications had both read the active client before either wrote; both
\* have written expired and answered 402
C26_Witness ==
    /\ Len(licenseVerificationLogs) = 2
    /\ \A i \in 1..2 : licenseVerificationLogs[i].errorMessage = "Subscription expired"
    /\ \A s \in Slots : requests[s] = Idle
    /\ response.status = 402
    /\ response.body.error = "Subscription has expired"
    /\ saasClients["c1"].subscriptionStatus = "expired"

(***************************************************************************)
(* toggle-status step by step: the handler awaits the select of the client *)
(* and then the update computed from the row read                          *)
(***************************************************************************)
\* toggle-status, lines 9-36: the checks of the request and the select
ToggleBegin(s, id, action, reason) ==
    LET req == [id |-> id, action |-> action, reason |-> reason] IN
    /\ requests[s] = Idle
    /\ IF action \notin ToggleActions
       THEN /\ response' = Answer("toggle", req, 400, [success |-> FALSE])
            /\ UNCHANGED requests
       ELSE IF id \notin Ids
       THEN /\ response' = Answer("toggle", req, 404, [success |-> FALSE])
            /\ UNCHANGED requests
       ELSE /\ requests' = [requests EXCEPT ![s] =
                               [pc |-> "toggle", req |-> req, client |-> saasClients[id]]]
            /\ response' = Awaiting
    /\ UNCHANGED <<saasClients, licenseVerificationLogs, now, fetches>>

\* toggle-status, lines 38-95: the update computed from the row read, and the answer
ToggleFinish(s) ==
    LET frame == requests[s]
        req == frame.req
    IN
    /\ frame.pc = "toggle"
    /\ req.reason # MISSING => AuditLines(frame.client.notes) < MaxNotes
    /\ saasClients' = UpdateWhereId(saasClients, req.id,
                           TogglePatch(frame.client, req.action, req.reason, now))
    /\ response' = Answer("toggle", req, 200,
                          [success |-> TRUE, data |-> saasClients'[req.id]])
    /\ requests' = [requests EXCEPT ![s] = Idle]
    /\ UNCHANGED <<licenseVerificationLogs, now, fetches>>

(***************************************************************************)
(* SerialSpec: one full verification and one administrative request on the *)
(* same client, whose subscriptionEndDate has passed, in flight together   *)
(***************************************************************************)
\* a PUT that renews the subscription
RenewalBody == [subscriptionStatus |-> "active", subscriptionEndDate |-> MaxTime + 1]

SerialStart(websiteDomain) ==
    [id \in {"c1"} |-> StoredClient("a@x.io", "LIC-A", websiteDomain, "active", "active", 1)]

SerialInit ==
    /\ saasClients \in {SerialStart(w) : w \in {Str_a_io, Str_https_a_io_slash}}
    /\ licenseVerificationLogs = <<>>
    /\ now = 2
    /\ response = Answer("none", <<>>, 0, <<>>)
    /\ requests = [s \in Slots |-> Idle]
    /\ fetches = <<>>

\* no verification has been received yet
NoVerificationYet ==
    licenseVerificationLogs = <<>> /\ \A s \in Slots : requests[s].pc # "verify"

\* no administrative request has been received yet
NoAdministrationYet ==
    /\ saasClients["c1"].notes = <<>>
    /\ saasClients["c1"].subscriptionEndDate = 1
    /\ \A s \in Slots : requests[s].pc # "toggle"

SerialNext ==
    \/ NoVerificationYet /\ \E d \in {Str_a_io, Str_A_IO} : PostLookup(1, "LIC-A", d)
    \/ PostFinish(1)
    \/ NoAdministrationYet /\ \E a \in ToggleActions : ToggleBegin(2, "c1", a, "overdue")
    \/ ToggleFinish(2)
    \/ NoAdministrationYet /\ UpdateClient("c1", RenewalBody)

SerialSpec == SerialInit /\ [][SerialNext]_vars

\* the administrative request that was served, read from what it has written
AdministrationDone ==
    IF saasClients["c1"].subscriptionEndDate # 1 THEN [kind |-> "renew"]
    ELSE [kind |-> "toggle",
          action |-> CHOOSE a \in ToggleActions :
                        saasClients["c1"].notes[1].text = ActionUpper[a] \o ": overdue"]

\* the store after the administrative request, served alone
Administered(op, clients) ==
    IF op.kind = "renew" THEN UpdateWhereId(clients, "c1", UpdateData(RenewalBody))
    ELSE UpdateWhereId(clients, "c1", TogglePatch(clients["c1"], op.action, "overdue", now))

\* the store after the verification, served alone
Verified_Alone(clients) ==
    LET o == PostFound("c1", clients["c1"], "LIC-A", extractDomain(Str_A_IO), now) IN
    IF o.patch = NoPatch THEN clients ELSE UpdateWhereId(clients, "c1", o.patch)

StatusPair(clients) == <<clients["c1"].status, clients["c1"].subscriptionStatus>>

\* both requests have been answered
BothAnswered ==
    /\ licenseVerificationLogs # <<>>
    /\ ~NoAdministrationYet
    /\ \A s \in Slots : requests[s] = Idle

\* C27: when one full verification and one administrative request on the same
\* client (a toggle-status, or a PUT that renews the subscription) have both been
\* answered, however their steps interleaved, status and subscriptionStatus of the
\* client are what serving the two one after the other gives, in one of the two
\* orders.
C27_SerialOutcome ==
    BothAnswered =>
       LET start == SerialStart(saasClients["c1"].websiteDomain)
           op == AdministrationDone
       IN  StatusPair(saasClients)
              \in {StatusPair(Verified_Alone(Administered(op, start))),
                   StatusPair(Administered(op, Verified_Alone(start)))}

(***************************************************************************)
(* AuditSpec: two administrative requests that append to the notes of the  *)
(* same client, in flight together                                         *)
(***************************************************************************)
AuditReasons == {"overdue", "paid"}

AuditInit ==
    /\ saasClients \in {SerialStart(w) : w \in {Str_a_io, Str_https_a_io_slash}}
    /\ licenseVerificationLogs = <<>>
    /\ now = 1
    /\ response = Answer("none", <<>>, 0, <<>>)
    /\ requests = [s \in Slots |-> Idle]
    /\ fetches = <<>>

AuditNext ==
    \/ \E s \in Slots, a \in ToggleActions, r \in AuditReasons : ToggleBegin(s, "c1", a, r)
    \/ \E s \in Slots : ToggleFinish(s)
    \/ \E s \in Slots : RegenerateBegin(s, "c1")
    \/ \E s \in Slots : RegenerateKeyStep(s, "LIC-B")
    \/ \E s \in Slots : RegenerateFinish(s)

AuditSpec == AuditInit /\ [][AuditNext]_vars

\* the step ends the request of slot s, which appends a line
ConcurrentAppend(s) ==
    /\ requests[s].pc \in {"toggle", "regenerate"}
    /\ requests'[s] = Idle
    /\ response'.status = 200

\* the text of the audit line a request in flight appends
AuditLineOf(frame) ==
    IF frame.pc = "toggle"
    THEN ActionUpper[frame.req.action] \o ": " \o frame.req.reason
    ELSE "License key regenerated. Old key: " \o frame.client.licenseKey

HasLine(notes, text) == \E i \in 1..Len(notes) : ~IsFreeText(notes[i]) /\ notes[i].text = text

\* C28: when two requests that append an audit line to the notes of the same
\* client (two toggle-status with reasons, or a toggle-status with a reason and a
\* regenerate-license) are in flight together, the notes hold both lines once both
\* have been answered, however their selects and updates interleave: a request
\* that ends leaves in the notes every audit line that was there.
C28_BothAuditLinesKept ==
    [][\A s \in Slots : ConcurrentAppend(s) =>
          /\ HasLine(saasClients'["c1"].notes, AuditLineOf(requests[s]))
          /\ \A i \in 1..Len(saasClients["c1"].notes) :
                ~IsFreeText(saasClients["c1"].notes[i]) =>
                   HasLine(saasClients'["c1"].notes, saasClients["c1"].notes[i].text)
      ]_vars

(***************************************************************************)
(* SoundSpec: the three checks of a license, served one after the other    *)
(* while the administrator toggles and renews the client and time passes   *)
(***************************************************************************)
SoundDomains == {Str_a_io, Str_A_IO, Str_b_io}

SoundUpdates == {RenewalBody, [subscriptionStatus |-> "cancelled"]}

SoundStores ==
    {[id \in {"c1"} |-> StoredClient("a@x.io", "LIC-A", w, "active", "active", e)] :
        w \in {Str_a_io, Str_https_a_io_slash}, e \in {NoDate, 1}}

SoundInit ==
    /\ saasClients \in SoundStores
    /\ licenseVerificationLogs = <<>>
    /\ now = 1
    /\ response = Answer("none", <<>>, 0, <<>>)
    /\ requests = <<>>
    /\ fetches = <<>>

SoundNext ==
    \/ \E d \in SoundDomains : VerifyPOST("LIC-A", d)
    \/ \E d \in SoundDomains : VerifyGET("LIC-A", d)
    \/ \E d \in SoundDomains : CheckByDomain(d)
    \/ \E a \in ToggleActions : ToggleStatus("c1", a, MISSING)
    \/ \E body \in SoundUpdates : UpdateClient("c1", body)
    \/ Tick

SoundSpec == SoundInit /\ [][SoundNext]_vars

\* the license of the client is in order for the requested domain at time t
InOrderFor(clientData, domain, t) ==
    /\ InOrder(clientData, t)
    /\ extractDomain(clientData.websiteDomain) = extractDomain(domain)

\* the step is one of the three checks and has answered valid:true
AnsweredValid ==
    /\ response'.op \in {"POST", "GET", "check-by-domain"}
    /\ response'.body.valid = TRUE

\* C29: the full verification, the lightweight check and check-by-domain answer
\* valid:true only for a client that the store holds with status active,
\* subscriptionStatus active, a websiteDomain whose canonical form is that of the
\* requested domain and a subscriptionEndDate that is null or not passed; so a
\* client that is disabled, suspended or expired gets no valid:true from a request
\* served while it is so.
C29_ValidMeansInOrder ==
    [][AnsweredValid =>
          \E id \in Ids :
             /\ InOrderFor(saasClients[id], response'.req.domain, now)
             /\ response'.op \in {"POST", "GET"} =>
                   saasClients[id].licenseKey = response'.req.licenseKey
             /\ response'.op = "check-by-domain" =>
                   /\ response'.body.client.id = id
                   /\ response'.body.licenseKey = saasClients[id].licenseKey
      ]_vars

\* after a rejection of the disabled client and an enable, check-by-domain has
\* answered valid:true for a spelling of the stored domain
C29_Witness ==
    /\ response.op = "check-by-domain"
    /\ response.body.valid = TRUE
    /\ response.req.domain = Str_A_IO
    /\ Len(licenseVerificationLogs) > 0
    /\ LastLog.verificationStatus = "suspended"
    /\ saasClients["c1"].status = "active"

\* C30: a full verification that is answered 500 leaves every client record as it
\* was before the request: an update of the client (expired, or the access dates)
\* is not kept when the insert of its log entry throws.
C30_FaultLeavesClientsUnchanged ==
    [][FaultedVerification => saasClients' = saasClients]_vars

====
